---- MODULE Spec2Model ----
(***************************************************************************)
(* The approval-gated action core of the Omni Agent: the propose handlers  *)
(* (the agent's tools), the resolve handlers (handle_pending_X) and the    *)
(* session controller (agent_chat, handle_pending_all), with the secrets   *)
(* vault (secure_vault.py) and the session's secret-storage workflow.      *)
(*                                                                         *)
(* A Python string is a sequence of chunks (words); "x in s" is contiguous *)
(* containment of chunk sequences, s.startswith(p) is a chunk prefix, and  *)
(* s.lower() lower-cases every chunk.                                      *)
(***************************************************************************)
EXTENDS Integers, Sequences, FiniteSets, TLC

VARIABLES
    session_unlocked,   \* omni_agent.session_unlocked
    session_pin,        \* omni_agent.session_pin ("none" for None)
    vault_file,         \* secrets.vault: NoVault, or the PIN it is saved under and the mapping
    secret_flow,        \* session_state: the keys of the secret-storage workflow
    global_approval,    \* session_state["global_approval"]
    pending,            \* session_state["pending_<kind>"], one slot per kind
    fs,                 \* the files the handlers write: path name -> content
    backups,            \* <path>.bak.<timestamp> files of each path, oldest first
    temps,              \* staged NamedTemporaryFile files still on disk
    nprop,              \* number of proposals stored so far
    scripts,            \* temp_agent_run_<timestamp> script files on disk
    queue,              \* task_manager.queue: the heap list
    log_file,           \* ragis_events.log: the records appended
    write_lock,         \* RagisLogger._write_lock of each instance: its holder
    thread_pc,          \* where each thread is in RagisLogger.log
    last                \* history: the latest call, what it found, did and returned

\* the state of the code runner, the task queue and the event logger
aside == <<scripts, queue, log_file, write_lock, thread_pc>>

vars == <<session_unlocked, session_pin, vault_file, secret_flow, global_approval,
          pending, fs, backups, temps, nprop, aside, last>>

(***************************************************************************)
(* Bounds                                                                  *)
(***************************************************************************)
MaxProposals == 2

(***************************************************************************)
(* Strings                                                                 *)
(***************************************************************************)
LowerWord(w) ==
    CASE w = "YES" -> "yes"
      [] w = "RM" -> "rm"
      [] w = "-RF" -> "-rf"
      [] w = "LS" -> "ls"
      [] w = "Search" -> "search"
      [] OTHER -> w

\* str.lower()
Lower(s) == [i \in 1..Len(s) |-> LowerWord(s[i])]

\* sub in s
Contains(s, sub) ==
    \E i \in 0..(Len(s) - Len(sub)) : \A j \in 1..Len(sub) : s[i + j] = sub[j]

\* s.startswith(p)
StartsWith(s, p) ==
    Len(p) <= Len(s) /\ \A j \in 1..Len(p) : s[j] = p[j]

(***************************************************************************)
(* Action kinds: the keys "pending_<kind>" of session_state, in the order  *)
(* handle_pending_all tries their handlers.                                *)
(***************************************************************************)
HandlerOrder ==
    << "file_change", "ui_file", "shell_cmd", "pip_install", "npm_install",
       "github_clone", "github_push", "api_call", "doc_gen", "pip_audit",
       "installer", "installer_run", "code_search", "backup_restore" >>

Kinds == { HandlerOrder[i] : i \in 1..Len(HandlerOrder) }

\* session_state.get("pending_<kind>") is falsy
NoPending == [none |-> TRUE]

(***************************************************************************)
(* Affirmative phrases: every module has its own is_affirmative.           *)
(***************************************************************************)
affirm_base ==
    { <<"yes">>, <<"ok">>, <<"allow">>, <<"approve">>, <<"go", "ahead">> }

affirm_files ==
    affirm_base \cup
    { <<"sure">>, <<"yep">>, <<"accepted">>, <<"affirm">>, <<"green", "light">>,
      <<"do", "it">>, <<"confirmed">> }

affirm_agent ==
    affirm_base \cup
    { <<"sure">>, <<"yep">>, <<"confirmed">>, <<"trust", "it">>, <<"affirm">>,
      <<"green", "light">>, <<"make", "it", "so">>, <<"roger", "that">> }

AffirmOf(k) == IF k = "file_change" THEN affirm_files ELSE affirm_base

is_affirmative(k, msg) ==
    LET lc == Lower(msg) IN \E w \in AffirmOf(k) : Contains(lc, w)

\* the handlers that read session_state["global_approval"]
ReadsGlobalApproval(k) ==
    k \notin {"ui_file", "installer", "installer_run", "backup_restore"}

\* a faulty gate that takes every reply for an approval
ApprovedAlways(k, msg, ga) == TRUE

\* "if auto_approve or is_affirmative(user_message)"
Approved(k, msg, ga) ==
    (ReadsGlobalApproval(k) /\ ga) \/ is_affirmative(k, msg)

(***************************************************************************)
(* Files.  A path is named by a short name; AbsPath is the chunk sequence  *)
(* of os.path.abspath(os.path.expanduser(path)).                           *)
(***************************************************************************)
user_home == <<"/home/u">>

PathNames == {"f", "g", "i", "x", "sh", "s"}

AbsPath(p) ==
    CASE p = "f" -> <<"/home/u", "/f">>
      [] p = "g" -> <<"/home/u", "/g">>
      [] p = "i" -> <<"/home/u", "/ui_sandbox", "/i">>
      [] p = "sh" -> <<"/home/u", "/universal_installer.sh">>
      [] p = "s" -> <<"/home/u", "2", "/s">>
      [] OTHER -> <<"/etc", "/x">>

\* os.path.join(user_home, "ui_sandbox")
sandbox_dir == user_home \o <<"/ui_sandbox">>

\* the path lies in the directory root: root is a prefix that ends where a
\* component of the path ends ("2" is the one chunk that continues a name)
Inside(p, root) ==
    /\ StartsWith(AbsPath(p), root)
    /\ Len(AbsPath(p)) > Len(root) => AbsPath(p)[Len(root) + 1] # "2"

\* abs_path.startswith(user_home)
InHome(p) == StartsWith(AbsPath(p), user_home)

\* os.path.exists(abs_path)
Exists(files, p) == files[p] # "absent"

\* shutil.copy2(abs_path, f"{abs_path}.bak.{get_timestamp()}"): the backups of
\* a path, oldest first (two backups are taken at least a second apart)
copy_backup(bk, files, p) == [bk EXCEPT ![p] = Append(@, files[p])]

\* with open(abs_path, "w") as f: f.write(content)
\*   "ok": written; "raise": open() fails, the file is untouched;
\*   "partial": open() has truncated the file and write() fails
open_write(files, p, content, out) ==
    CASE out = "ok" -> [files EXCEPT ![p] = content]
      [] out = "partial" -> [files EXCEPT ![p] = "partial"]
      [] OTHER -> files

(***************************************************************************)
(* The vault (secure_vault.py).  secrets.vault holds the JSON mapping of    *)
(* secret names to entries, encrypted under the key derived from a PIN: it *)
(* is modelled by that PIN and the mapping.  Fernet decrypts exactly the   *)
(* tokens made with the same key, and the salt file is never replaced, so  *)
(* a PIN decrypts the file iff it is the PIN the file was saved under.  An *)
(* entry is {"current", "archive", "deleted"}; the timestamps are left     *)
(* out, and an archive element is its "value".  A key that is not in the   *)
(* mapping is NoEntry.  The write of save_vault is taken to succeed.       *)
(***************************************************************************)
MaxArchive == 2

SecretNames == {"A", "B", "GITHUB_PAT"}

NoVault == [none |-> TRUE]

NoEntry == [none |-> TRUE]

\* {}
EmptyVault == [n \in SecretNames |-> NoEntry]

\* what load_vault returns when the file cannot be decrypted
NoneValue == [failed |-> TRUE]

\* a faulty load that takes a file it cannot decrypt for an empty vault
load_vault_lenient(vf, pin) ==
    IF vf = NoVault THEN EmptyVault
    ELSE IF vf.pin = pin THEN vf.secrets
    ELSE EmptyVault

\* load_vault(pin), reading the vault file vf
load_vault(vf, pin) ==
    IF vf = NoVault THEN EmptyVault
    ELSE IF vf.pin = pin THEN vf.secrets
    ELSE NoneValue

\* a load that always starts from an empty mapping
load_vault_forgetting(vf, pin) == EmptyVault

\* load_vault(pin) or {}
load_vault_or_empty(vf, pin) ==
    IF load_vault(vf, pin) = NoneValue THEN EmptyVault ELSE load_vault(vf, pin)

\* save_vault(secrets, pin): the file written
save_vault(secrets, pin) == [pin |-> pin, secrets |-> secrets]

\* a vault file cut short: no PIN decrypts it
CorruptVault == [pin |-> "corrupt", secrets |-> EmptyVault]

\* how the write of save_vault ends.  "ok": the file is written;
\* "fail": encrypt or open raises, the file is untouched; "partial": open(.., "wb")
\* has truncated the file and write raises.  save_vault catches and logs the
\* exception in both cases and returns normally.
SaveOutcomes == {"ok", "fail", "partial"}

\* the vault file after save_vault meant to write the file new over old
written(old, new, out) ==
    CASE out = "ok" -> new
      [] out = "fail" -> old
      [] OTHER -> CorruptVault

\* what a vault function did: the vault file after it, what it returned
\* ("None", "True", "False" or a secret value) and whether it raised
VaultResult(vf, ret, raised) == [vault |-> vf, ret |-> ret, raised |-> raised]

\* a faulty insert that puts the previous value at the end of the archive
archive_at_end(archive, value) == Append(archive, value)

\* entry['archive'].insert(0, {"value": value, ...})
archive_insert(archive, value) == <<value>> \o archive

set_secret(vf, name, value, pin) ==
    IF name = "" \/ value = "" THEN VaultResult(vf, "None", FALSE)
    ELSE LET secrets == load_vault_or_empty(vf, pin)
             entry == secrets[name]
             new == IF entry # NoEntry
                    THEN [entry EXCEPT !.archive = archive_insert(@, entry.current),
                                       !.current = value]
                    ELSE [current |-> value, archive |-> <<>>, deleted |-> FALSE]
         IN  VaultResult(save_vault([secrets EXCEPT ![name] = new], pin),
                         "None", FALSE)

\* archive[version] with Python's indexing: the 1-based position, 0 when
\* the index is out of range (IndexError)
PyIndex(archive, version) ==
    IF version >= 0
    THEN IF version < Len(archive) THEN version + 1 ELSE 0
    ELSE IF version + Len(archive) >= 0 THEN version + Len(archive) + 1 ELSE 0

\* the list without its element at position i
RemoveAt(archive, i) ==
    [j \in 1..(Len(archive) - 1) |-> IF j < i THEN archive[j] ELSE archive[j + 1]]

get_secret(vf, name, pin, archived, version) ==
    LET secrets == load_vault_or_empty(vf, pin)
        entry == secrets[name]
    IN  IF entry = NoEntry THEN VaultResult(vf, "None", FALSE)
        ELSE IF ~archived THEN VaultResult(vf, entry.current, FALSE)
        ELSE IF Len(entry.archive) > version
        THEN IF PyIndex(entry.archive, version) = 0
             THEN VaultResult(vf, "None", TRUE)
             ELSE VaultResult(vf, entry.archive[PyIndex(entry.archive, version)], FALSE)
        ELSE VaultResult(vf, "None", FALSE)

\* a faulty restore that drops the value it replaces
restore_dropping(vf, name, pin, version) ==
    LET secrets == load_vault_or_empty(vf, pin)
        entry == secrets[name]
        i == PyIndex(entry.archive, version)
    IN  IF entry = NoEntry \/ Len(entry.archive) <= version
        THEN VaultResult(vf, "False", FALSE)
        ELSE IF i = 0 THEN VaultResult(vf, "None", TRUE)
        ELSE VaultResult(
                 save_vault([secrets EXCEPT ![name] =
                                [entry EXCEPT !.archive = RemoveAt(entry.archive, i),
                                              !.current = entry.archive[i]]], pin),
                 "True", FALSE)

restore_secret(vf, name, pin, version) ==
    LET secrets == load_vault_or_empty(vf, pin)
        entry == secrets[name]
        i == PyIndex(entry.archive, version)
    IN  IF entry = NoEntry \/ Len(entry.archive) <= version
        THEN VaultResult(vf, "False", FALSE)
        ELSE IF i = 0 THEN VaultResult(vf, "None", TRUE)   \* pop raises IndexError
        ELSE VaultResult(
                 save_vault([secrets EXCEPT ![name] =
                                [entry EXCEPT
                                    !.archive = archive_insert(RemoveAt(entry.archive, i),
                                                               entry.current),
                                    !.current = entry.archive[i]]], pin),
                 "True", FALSE)

\* a faulty delete that always removes the entry
delete_erasing(vf, name, pin, erase_archive) ==
    LET secrets == load_vault_or_empty(vf, pin)
    IN  IF secrets[name] # NoEntry
        THEN VaultResult(save_vault([secrets EXCEPT ![name] = NoEntry], pin),
                         "True", FALSE)
        ELSE VaultResult(vf, "False", FALSE)

delete_secret(vf, name, pin, erase_archive) ==
    LET secrets == load_vault_or_empty(vf, pin)
    IN  IF secrets[name] # NoEntry
        THEN VaultResult(
                 save_vault(IF erase_archive
                            THEN [secrets EXCEPT ![name] = NoEntry]
                            ELSE [secrets EXCEPT ![name].deleted = TRUE], pin),
                 "True", FALSE)
        ELSE VaultResult(vf, "False", FALSE)

\* len(w) if w.isdigit(), else -1
DigitsLen(w) ==
    CASE w \in {"12345", "99999", "54321"} -> 5
      [] w = "1234" -> 4
      [] w = "0" -> 1
      [] OTHER -> 0 - 1

\* a faulty change that keeps the file under the old PIN
change_pin_kept(vf, old_pin, new_pin) ==
    IF DigitsLen(new_pin) < 5 \/ DigitsLen(new_pin) > 6
    THEN VaultResult(vf, "False", FALSE)
    ELSE IF load_vault(vf, old_pin) = NoneValue
    THEN VaultResult(vf, "False", FALSE)
    ELSE VaultResult(save_vault(load_vault(vf, old_pin), old_pin), "True", FALSE)

change_pin(vf, old_pin, new_pin) ==
    IF DigitsLen(new_pin) < 5 \/ DigitsLen(new_pin) > 6
    THEN VaultResult(vf, "False", FALSE)
    ELSE IF load_vault(vf, old_pin) = NoneValue
    THEN VaultResult(vf, "False", FALSE)
    ELSE VaultResult(save_vault(load_vault(vf, old_pin), new_pin), "True", FALSE)

(***************************************************************************)
(* The secret-storage workflow of the session (omni_agent.py).  Its keys   *)
(* of session_state are "none" while they are not set.                     *)
(***************************************************************************)
NoFlow ==
    [awaiting_secret_name |-> "none", awaiting_secret_overwrite |-> "none",
     pending_secret_store |-> "none", pending_secret_pin |-> "none"]

\* no vault function was called
NoCall == [none |-> TRUE]

\* a call of a vault function: its arguments, the vault file before it and
\* what it returned
VaultCall(fn, name, value, pin, version, erase, before, res) ==
    [fn |-> fn, name |-> name, value |-> value, pin |-> pin, version |-> version,
     erase |-> erase, before |-> before, ret |-> res.ret, raised |-> res.raised]

\* omni_agent.is_affirmative
is_affirmative_agent(msg) ==
    LET lc == Lower(msg) IN \E w \in affirm_agent : Contains(lc, w)

\* message.isdigit()
IsDigit(msg) == Len(msg) = 1 /\ DigitsLen(msg[1]) >= 1

\* message.strip(), as the string a one-word message is
MessageText(msg) == IF Len(msg) = 1 THEN msg[1] ELSE "text"

FlowResult(flow, vf, ret, call) ==
    [flow |-> flow, vault |-> vf, ret |-> ret, call |-> call]

handle_pending_secret_workflow(msg, flow, vf, pin) ==
    LET lc == Lower(msg)
    IN  IF Contains(lc, <<"store", "my", "github", "pat">>)
           \/ Contains(lc, <<"add", "github", "pat">>)
        THEN FlowResult([flow EXCEPT !.awaiting_secret_name = "GITHUB_PAT"], vf,
                        "I'll store your GitHub PAT securely. Is that ok?", NoCall)
        ELSE IF flow.awaiting_secret_name # "none" /\ is_affirmative_agent(msg)
        THEN IF get_secret(vf, flow.awaiting_secret_name, pin, FALSE, 0).ret # "None"
             THEN FlowResult([flow EXCEPT !.awaiting_secret_name = "none",
                                          !.awaiting_secret_overwrite =
                                              flow.awaiting_secret_name], vf,
                             "A secret of that name already exists. Overwrite/replace it?",
                             NoCall)
             ELSE FlowResult([flow EXCEPT !.awaiting_secret_name = "none",
                                          !.pending_secret_store =
                                              flow.awaiting_secret_name], vf,
                             "Please enter your PIN to store the secret.", NoCall)
        ELSE IF flow.awaiting_secret_overwrite # "none" /\ is_affirmative_agent(msg)
        THEN FlowResult([flow EXCEPT !.awaiting_secret_overwrite = "none",
                                     !.pending_secret_store =
                                         flow.awaiting_secret_overwrite], vf,
                        "Please enter your PIN to update the secret.", NoCall)
        ELSE IF flow.pending_secret_store # "none" /\ IsDigit(msg)
        THEN FlowResult([flow EXCEPT !.pending_secret_pin = msg[1]], vf,
                        "PIN accepted. Now paste the value.", NoCall)
        ELSE IF flow.pending_secret_pin # "none" /\ flow.pending_secret_store # "none"
                /\ ~IsDigit(msg)
        THEN LET res == set_secret(vf, flow.pending_secret_store, MessageText(msg),
                                   flow.pending_secret_pin)
             IN  FlowResult([flow EXCEPT !.pending_secret_store = "none",
                                         !.pending_secret_pin = "none"],
                            res.vault, "Secret stored securely.",
                            VaultCall("workflow", flow.pending_secret_store,
                                      MessageText(msg), flow.pending_secret_pin,
                                      0, FALSE, vf, res))
        ELSE FlowResult(flow, vf, "None", NoCall)

\* the archives of the vault file are within the bound of the model
WithinBound(vf) ==
    IF vf = NoVault THEN TRUE
    ELSE \A n \in SecretNames :
             IF vf.secrets[n] = NoEntry THEN TRUE
             ELSE Len(vf.secrets[n].archive) <= MaxArchive

(***************************************************************************)
(* Resolve handlers.  A handler reads and writes s = [pending, fs, backups, *)
(* temps] and yields a Result: the new s, the pending action it found, its *)
(* approval decision (aff), whether the operation was started (ran) and     *)
(* raised, the returned text (ret, "None" for None, "RAISES" when the call *)
(* itself raises) and the events it logged.                                *)
(***************************************************************************)
Outcomes == {"ok", "raise", "partial"}

Result(s, k, found, aff, ran, raised, ret, log) ==
    [s |-> s, kind |-> k, found |-> found, aff |-> aff, ran |-> ran,
     raised |-> raised, ret |-> ret, log |-> log, errors |-> {}]

\* "return None": no pending action of the kind
ReturnNone(s) ==
    Result(s, "none", NoPending, FALSE, FALSE, FALSE, "None", <<>>)

\* session_state.pop('pending_<kind>')
PopPending(s, k) == [s EXCEPT !.pending[k] = NoPending]

\* os.remove(temp_path)
RemoveTemp(s, t) == [s EXCEPT !.temps = @ \ {t}]

handle_pending_file_change(msg, ga, out, s) ==
    LET p == s.pending["file_change"]
        done == RemoveTemp(PopPending(s, "file_change"), p.temp_path)
    IN  IF p = NoPending THEN ReturnNone(s)
        ELSE IF Approved("file_change", msg, ga)
        THEN IF out = "ok"
             THEN Result([done EXCEPT !.fs = open_write(@, p.abs_path, p.content, out)],
                         "file_change", p, TRUE, TRUE, FALSE,
                         "File edited/created successfully", <<"write_file">>)
             ELSE Result([done EXCEPT !.fs = open_write(@, p.abs_path, p.content, out)],
                         "file_change", p, TRUE, TRUE, TRUE,
                         "Error editing/creating file", <<"write_file_fail">>)
        ELSE Result(done, "file_change", p, FALSE, FALSE, FALSE,
                    "File edit/create was not approved. Cancelling.",
                    <<"edit_create_cancel">>)

handle_pending_ui_file(msg, ga, out, s) ==
    LET p == s.pending["ui_file"]
        done == RemoveTemp(PopPending(s, "ui_file"), p.temp_path)
    IN  IF p = NoPending THEN ReturnNone(s)
        ELSE IF Approved("ui_file", msg, ga)
        THEN IF out = "ok"
             THEN Result([done EXCEPT !.fs = open_write(@, p.abs_path, p.content, out)],
                         "ui_file", p, TRUE, TRUE, FALSE,
                         "UI file saved", <<"ui_file_written">>)
             ELSE Result([done EXCEPT !.fs = open_write(@, p.abs_path, p.content, out)],
                         "ui_file", p, TRUE, TRUE, TRUE,
                         "Error writing UI file", <<"ui_file_write_fail">>)
        ELSE Result(done, "ui_file", p, FALSE, FALSE, FALSE,
                    "UI file write not approved. Cancelling.",
                    <<"ui_file_cancelled">>)

\* task_manager.with_retry, for the outcomes outs[1], outs[2], ... of the
\* calls of task_fn ("ok", or the exception the call raises): the events
\* logged, whether an exception leaves with_retry and which (error), the
\* number of calls of task_fn and of time.sleep(delay), and the call whose
\* result is returned (0: none; with_retry then returns None unless it raised)
DefaultRetries == 2

RECURSIVE with_retry_from(_, _, _)
with_retry_from(attempt, outs, retries) ==
    IF attempt >= retries + 1        \* range(retries + 1) is exhausted
    THEN [raised |-> FALSE, error |-> "none", log |-> <<>>, calls |-> 0,
          sleeps |-> 0, result |-> 0]
    ELSE IF outs[attempt + 1] = "ok"
    THEN [raised |-> FALSE, error |-> "none", log |-> <<>>, calls |-> 1,
          sleeps |-> 0, result |-> attempt + 1]
    ELSE IF attempt < retries
    THEN LET rest == with_retry_from(attempt + 1, outs, retries)
         IN  [rest EXCEPT !.log = <<"task_retry_error">> \o @,
                          !.calls = @ + 1, !.sleeps = @ + 1]
    ELSE [raised |-> TRUE, error |-> outs[attempt + 1],
          log |-> <<"task_retry_error", "task_failed">>, calls |-> 1,
          sleeps |-> 0, result |-> 0]

\* a faulty with_retry that returns None after the last failure
with_retry_swallowing(outs, retries) ==
    [with_retry_from(0, outs, retries) EXCEPT !.raised = FALSE, !.error = "none"]

with_retry(outs, retries) == with_retry_from(0, outs, retries)

\* the operation fails (or succeeds) the same way at every attempt
SameEveryAttempt(out) == [i \in 1..(DefaultRetries + 1) |-> out]

\* the text returned after the operation ran
RunReturn(k, p) ==
    CASE k = "shell_cmd" -> "Shell output (approved)"
      [] k = "pip_install" -> "pip install output"
      [] k = "npm_install" -> "npm install output"
      [] k = "github_clone" -> "Cloned"
      [] k = "github_push" -> "Git push done. Log"
      [] k = "api_call" -> IF p.method = "GET" THEN "GET response" ELSE "POST response"
      [] k = "doc_gen" -> "Docstring formatting done"
      [] k = "pip_audit" -> "pip-audit results"
      [] k = "installer" -> "Universal installer created. Ready to run the installer?"
      [] k = "installer_run" -> "Installer script ran"
      [] OTHER -> "[ripgrep search result]"

\* the event logged after the operation ran
RunEvent(k, p) ==
    CASE k = "shell_cmd" -> "run_shell"
      [] k = "pip_install" -> "pip_install"
      [] k = "npm_install" -> "npm_install"
      [] k = "github_clone" -> "github_clone"
      [] k = "github_push" -> "github_push"
      [] k = "api_call" -> IF p.method = "GET" THEN "api_get" ELSE "api_post"
      [] k = "doc_gen" -> "doc_gen"
      [] k = "pip_audit" -> "pip_audit"
      [] k = "installer" -> "universal_installer_created"
      [] k = "installer_run" -> "run_installer"
      [] OTHER -> "code_search"

\* a faulty handler without "except": the error leaves the call
Uncaught(k) == "RAISES"

\* the text returned by "except Exception as e"; git push catches the error
\* of each subcommand and puts it into the log text of its normal return
ErrorReturn(k) ==
    CASE k = "shell_cmd" -> "Shell command error"
      [] k = "pip_install" -> "pip install error"
      [] k = "npm_install" -> "npm install error"
      [] k = "github_clone" -> "Clone error"
      [] k = "github_push" -> "Git push done. Log: Error running git"
      [] k = "api_call" -> "API call error"
      [] k = "doc_gen" -> "Docstring generation error"
      [] k = "pip_audit" -> "pip-audit error"
      [] k = "installer" -> "Error creating installer script"
      [] k = "installer_run" -> "Installer run error"
      [] OTHER -> "ripgrep search error"

\* the events logged when the operation raises
ErrorLog(k) ==
    CASE k = "shell_cmd" -> <<"run_shell_fail">>
      [] k = "pip_install" -> <<"pip_install_fail">>
      [] k = "npm_install" -> <<"npm_install_fail">>
      [] k = "github_clone" ->
            with_retry(SameEveryAttempt("raise"), DefaultRetries).log
                \o <<"github_clone_error">>
      [] k = "github_push" ->
            with_retry(SameEveryAttempt("raise"), DefaultRetries).log
                \o with_retry(SameEveryAttempt("raise"), DefaultRetries).log
                \o with_retry(SameEveryAttempt("raise"), DefaultRetries).log
                \o <<"github_push">>
      [] k = "api_call" -> <<"api_error">>
      [] k = "doc_gen" -> <<"doc_gen_error">>
      [] k = "pip_audit" -> <<"pip_audit_fail">>
      [] k = "installer" -> <<"universal_installer_error">>
      [] k = "installer_run" -> <<"run_installer_error">>
      [] OTHER -> <<"code_search_error">>

CancelReturn(k) ==
    CASE k = "shell_cmd" -> "Shell command cancelled."
      [] k = "pip_install" -> "pip install cancelled."
      [] k = "npm_install" -> "npm install cancelled."
      [] k = "github_clone" -> "GitHub clone not approved. Cancelling."
      [] k = "github_push" -> "GitHub push not approved. Cancelling."
      [] k = "api_call" -> "API call not approved. Cancelling."
      [] k = "doc_gen" -> "Docstring generation cancelled."
      [] k = "pip_audit" -> "pip-audit cancelled."
      [] k = "installer" -> "Universal installer script creation cancelled."
      [] k = "installer_run" -> "Universal installer run cancelled."
      [] OTHER -> "Code search was not approved."

CancelEvent(k) ==
    CASE k = "shell_cmd" -> "shell_cmd_cancelled"
      [] k = "pip_install" -> "pip_install_cancelled"
      [] k = "npm_install" -> "npm_install_cancelled"
      [] k = "github_clone" -> "github_clone_cancelled"
      [] k = "github_push" -> "github_push_cancelled"
      [] k = "api_call" -> "api_cancelled"
      [] k = "doc_gen" -> "doc_gen_cancelled"
      [] k = "pip_audit" -> "pip_audit_cancelled"
      [] k = "installer" -> "universal_installer_cancelled"
      [] k = "installer_run" -> "run_installer_cancelled"
      [] OTHER -> "code_search_cancelled"

\* what the operation of an approved action leaves behind in the modelled
\* world: handle_pending_installer writes <prj>/universal_installer.sh, the
\* other operations are subprocesses or HTTP requests (recorded as "ran")
RunOperation(s, k, out) ==
    IF k = "installer"
    THEN [s EXCEPT !.fs = open_write(@, "sh", "script", out)]
    ELSE s

\* the handlers of the shape
\*     if session_state.get(key):
\*         payload = session_state.pop(key)
\*         if auto_approve or is_affirmative(user_message): try: run ...
\*         else: cancelled
\*     return None
pop_then_run(k, msg, ga, out, s) ==
    LET p == s.pending[k]
        s1 == PopPending(s, k)
    IN  IF p = NoPending THEN ReturnNone(s)
        ELSE IF Approved(k, msg, ga)
        THEN IF out = "ok"
             THEN Result(RunOperation(s1, k, out), k, p, TRUE, TRUE, FALSE,
                         RunReturn(k, p), <<RunEvent(k, p)>>)
             ELSE Result(RunOperation(s1, k, out), k, p, TRUE, TRUE, TRUE,
                         ErrorReturn(k), ErrorLog(k))
        ELSE Result(s1, k, p, FALSE, FALSE, FALSE, CancelReturn(k),
                    <<CancelEvent(k)>>)

handle_pending_shell_cmd(msg, ga, out, s) == pop_then_run("shell_cmd", msg, ga, out, s)
handle_pending_pip_install(msg, ga, out, s) == pop_then_run("pip_install", msg, ga, out, s)
handle_pending_npm_install(msg, ga, out, s) == pop_then_run("npm_install", msg, ga, out, s)
handle_pending_github_clone(msg, ga, out, s) == pop_then_run("github_clone", msg, ga, out, s)
handle_pending_github_push(msg, ga, out, s) == pop_then_run("github_push", msg, ga, out, s)
handle_pending_api_call(msg, ga, out, s) == pop_then_run("api_call", msg, ga, out, s)
handle_pending_doc_gen(msg, ga, out, s) == pop_then_run("doc_gen", msg, ga, out, s)
handle_pending_pip_audit(msg, ga, out, s) == pop_then_run("pip_audit", msg, ga, out, s)
handle_pending_installer(msg, ga, out, s) == pop_then_run("installer", msg, ga, out, s)
handle_pending_installer_run(msg, ga, out, s) == pop_then_run("installer_run", msg, ga, out, s)
handle_pending_code_search(msg, ga, out, s) == pop_then_run("code_search", msg, ga, out, s)

\* int(user_message.strip())
IntWords == {"0", "1", "2", "-1", "1234", "12345", "99999"}

IntOf(w) ==
    CASE w = "0" -> 0
      [] w = "1" -> 1
      [] w = "2" -> 2
      [] w = "-1" -> 0 - 1
      [] w = "1234" -> 1234
      [] w = "12345" -> 12345
      [] OTHER -> 99999

ParsesAsInt(msg) == Len(msg) = 1 /\ msg[1] \in IntWords

\* a listing sorted oldest first
ListedOldestFirst(n, idx) == idx + 1

\* found = sorted(glob(...), reverse=True): found[idx] is the backup number
\* n - idx of the n backups listed, counted oldest first
ListedBackup(n, idx) == n - idx

handle_pending_backup_restore(msg, ga, out, s) ==
    LET p == s.pending["backup_restore"]
        s1 == PopPending(s, "backup_restore")
        idx == IntOf(msg[1])
    IN  IF p = NoPending THEN ReturnNone(s)
        ELSE IF Lower(msg) = <<"cancel">>
        THEN Result(s1, "backup_restore", p, FALSE, FALSE, FALSE,
                    "Restore cancelled.", <<"restore_cancelled">>)
        ELSE IF ~ParsesAsInt(msg)
        THEN Result(s1, "backup_restore", p, FALSE, FALSE, FALSE,
                    "Restore error", <<"restore_error">>)
        ELSE IF idx < 0 \/ idx >= p.n
        THEN Result(s1, "backup_restore", p, FALSE, FALSE, FALSE,
                    "Invalid index.", <<"restore_invalid_index">>)
        ELSE IF out = "ok"
        THEN Result([s1 EXCEPT !.fs[p.path] = s.backups[p.path][ListedBackup(p.n, idx)]],
                    "backup_restore", p, TRUE, TRUE, FALSE,
                    "Restored from backup", <<"restore_file_backup">>)
        ELSE Result(s1, "backup_restore", p, TRUE, TRUE, TRUE,
                    "Restore error", <<"restore_error">>)

\* the resolve handler of kind k; every handler begins by testing its slot
\* and returns None when the slot is empty
handler(k, msg, ga, out, s) ==
    IF s.pending[k] = NoPending THEN ReturnNone(s)
    ELSE
    CASE k = "file_change" -> handle_pending_file_change(msg, ga, out, s)
      [] k = "ui_file" -> handle_pending_ui_file(msg, ga, out, s)
      [] k = "shell_cmd" -> handle_pending_shell_cmd(msg, ga, out, s)
      [] k = "pip_install" -> handle_pending_pip_install(msg, ga, out, s)
      [] k = "npm_install" -> handle_pending_npm_install(msg, ga, out, s)
      [] k = "github_clone" -> handle_pending_github_clone(msg, ga, out, s)
      [] k = "github_push" -> handle_pending_github_push(msg, ga, out, s)
      [] k = "api_call" -> handle_pending_api_call(msg, ga, out, s)
      [] k = "doc_gen" -> handle_pending_doc_gen(msg, ga, out, s)
      [] k = "pip_audit" -> handle_pending_pip_audit(msg, ga, out, s)
      [] k = "installer" -> handle_pending_installer(msg, ga, out, s)
      [] k = "installer_run" -> handle_pending_installer_run(msg, ga, out, s)
      [] k = "code_search" -> handle_pending_code_search(msg, ga, out, s)
      [] OTHER -> handle_pending_backup_restore(msg, ga, out, s)

(***************************************************************************)
(* handle_pending_all: "result = handler(user_message, session_state)" in  *)
(* a try/except that logs handler_error.  The two GitHub handlers take a   *)
(* third parameter get_secret, so this two-argument call raises TypeError  *)
(* before their body runs.  The first truthy result ends the loop.         *)
(***************************************************************************)
NeedsGetSecret(k) == k \in {"github_clone", "github_push"}

\* a dispatch that goes on to the next handler after a result
handle_pending_every(msg, ga, out, s) ==
    LET RECURSIVE from(_, _)
        from(i, st) ==
            IF i > Len(HandlerOrder) THEN ReturnNone(st)
            ELSE IF NeedsGetSecret(HandlerOrder[i]) THEN from(i + 1, st)
            ELSE LET result == handler(HandlerOrder[i], msg, ga, out, st)
                 IN  IF result.ret # "None"
                     THEN [result EXCEPT !.s = from(i + 1, result.s).s]
                     ELSE from(i + 1, st)
    IN  from(1, s)

handle_pending_all(msg, ga, out, s) ==
    LET RECURSIVE from(_)
        from(i) ==
            IF i > Len(HandlerOrder) THEN ReturnNone(s)
            ELSE IF NeedsGetSecret(HandlerOrder[i])
            THEN [from(i + 1) EXCEPT !.log = <<"handler_error">> \o @,
                                     !.errors = @ \cup {HandlerOrder[i]}]
            ELSE LET result == handler(HandlerOrder[i], msg, ga, out, s)
                 IN  IF result.ret # "None" THEN result ELSE from(i + 1)
    IN  from(1)

(***************************************************************************)
(* Inputs                                                                  *)
(***************************************************************************)
\* user messages: replies to a prompt, trust phrases and PIN entries
Msgs ==
    { <<"yes">>, <<"YES">>, <<"no">>, <<"sure">>, <<"cancel">>, <<"0">>,
      <<"trust", "session">>, <<"lock", "agent">>, <<"12345">> }

\* user messages that ask for something directly
Requests ==
    { <<"12345">>, <<"pin:", "12345">>, <<"99999">>, <<"1234">>, <<"no">>,
      <<"Search", "foo">>,
      <<"view", "file", "f">>, <<"list", "backups", "f">> }

\* the messages given to a resolve handler that is called on its own
ReplyMsgs == { <<"yes">>, <<"YES">>, <<"no">>, <<"sure">>, <<"cancel">>, <<"0">> }

\* shell commands
Cmds ==
    { <<"LS", "-la">>, <<"curl", "x">>, <<"wget", "x">>, <<"RM", "-RF", "x">>,
      <<"ls", "rm", "-rf">> }

\* content proposed for a file
NewContents == {"c1"}

safe_cmds ==
    { <<"ls">>, <<"dir">>, <<"npm", "install">>, <<"npm", "run">>,
      <<"npm", "build">>, <<"pip", "install">>, <<"pip", "list">>,
      <<"python">>, <<"pytest">>, <<"make">>, <<"echo">>, <<"pip", "freeze">>,
      <<"npm", "start">>, <<"node">>, <<"which">>, <<"where">> }

blocklist ==
    { <<"rm", "-rf">>, <<"del", "/f">>, <<"shutdown">>, <<"format">>, <<"dd">>,
      <<"mkfs">>, <<"poweroff">> }

\* a faulty check that compares the command without lower-casing it
is_blocked_as_typed(cmd) == \E bad \in blocklist : Contains(cmd, bad)

\* any(bad in cmd.lower() for bad in blocklist)
is_blocked(cmd) ==
    LET lc == Lower(cmd) IN \E bad \in blocklist : Contains(lc, bad)

\* a faulty check that compares the command without lower-casing it
is_safe_as_typed(cmd) == \E prefix \in safe_cmds : StartsWith(cmd, prefix)

\* any(cmd.lower().startswith(prefix) for prefix in safe_cmds)
is_safe(cmd) ==
    LET lc == Lower(cmd) IN \E prefix \in safe_cmds : StartsWith(lc, prefix)

(***************************************************************************)
(* History: the latest call.                                               *)
(*   op          "propose", "resolve", "tool" or "chat"                    *)
(*   route       the branch agent_chat took                                *)
(*   ga          global_approval when the call began                       *)
(*   affirmative the message contains an affirmative phrase of some module *)
(*   was         the kinds that had a pending action when the call began   *)
(*   before      the slot of the kind when the call began                  *)
(*   stored      the payload a propose put into the slot                   *)
(*   cmd         the command given to run_shell_command                    *)
(*   direct      the call itself started an operation                      *)
(*   prev        the content of the target of a file action when the call  *)
(*               began ("absent" for no file)                              *)
(*   vault       the call of a vault function made, its arguments, the     *)
(*               vault file before it and what it returned                 *)
(*   save        how the write of save_vault ended in that call ("none"    *)
(*               when it did not reach save_vault)                         *)
(*   retry       the call of with_retry made on its own: its arguments and  *)
(*               what it did                                               *)
(*   follows     a resolve right after the propose of the same kind; then  *)
(*               snap is the disk before that propose, asked the payload   *)
(*               it stored and over the payload it replaced                *)
(* and the fields of the handler's Result.                                 *)
(***************************************************************************)
NoSnap == [none |-> TRUE]

Snapshot == [fs |-> fs, backups |-> backups, temps |-> temps]

Blank ==
    [op |-> "none", route |-> "none", kind |-> "none", ga |-> FALSE,
     affirmative |-> FALSE, was |-> {}, found |-> NoPending, aff |-> FALSE,
     ran |-> FALSE, raised |-> FALSE, ret |-> "None", log |-> <<>>,
     cmd |-> <<>>, errors |-> {}, direct |-> FALSE, stored |-> NoPending,
     before |-> NoPending, follows |-> FALSE, snap |-> NoSnap,
     asked |-> NoPending, over |-> NoPending, prev |-> "none",
     vault |-> NoCall, save |-> "none", retry |-> NoCall,
     script |-> NoCall, task |-> NoCall, logged |-> NoCall,
     detail |-> NoCall]

\* the messages that contain an affirmative phrase of some module
AffirmativeMsgs ==
    { msg \in Msgs \cup Requests \cup ReplyMsgs :
        \E w \in affirm_files \cup affirm_agent : Contains(Lower(msg), w) }

SaysYes(msg) == msg \in AffirmativeMsgs

PendingKinds == { k \in Kinds : pending[k] # NoPending }

CurrentState ==
    [pending |-> pending, fs |-> fs, backups |-> backups, temps |-> temps]

\* the logger instances of the modules, all bound to ragis_events.log, and
\* the threads that log
Loggers == {"files", "task_manager"}

Threads == {"t1", "t2", "t3"}

Idle == [at |-> "idle"]

InitAside ==
    /\ scripts = {}
    /\ queue = <<>>
    /\ log_file = <<>>
    /\ write_lock = [l \in Loggers |-> "free"]
    /\ thread_pc = [t \in Threads |-> Idle]

Init ==
    /\ session_unlocked = FALSE
    /\ session_pin = "none"
    /\ vault_file = save_vault(EmptyVault, "12345")
    /\ secret_flow = NoFlow
    /\ global_approval = FALSE
    /\ pending = [k \in Kinds |-> NoPending]
    /\ fs = [p \in PathNames |->
                IF p \in {"f", "i", "x"} THEN "c0" ELSE "absent"]
    /\ backups = [p \in PathNames |-> <<>>]
    /\ temps = {}
    /\ nprop = 0
    /\ InitAside
    /\ last = Blank

(***************************************************************************)
(* Propose: the agent's tools                                              *)
(***************************************************************************)
\* a faulty store that keeps the action already pending
StoreIfEmpty(pend, k, payload) ==
    IF pend[k] = NoPending THEN [pend EXCEPT ![k] = payload] ELSE pend

\* session_state['pending_<kind>'] = payload
StorePending(pend, k, payload) == [pend EXCEPT ![k] = payload]

\* a tool call that stores a pending action
Store(k, payload, bk, tmp, ret, log) ==
    /\ session_unlocked
    /\ nprop < MaxProposals
    /\ pending' = StorePending(pending, k, payload)
    /\ backups' = bk
    /\ temps' = tmp
    /\ nprop' = nprop + 1
    /\ last' = [Blank EXCEPT !.op = "propose", !.kind = k, !.ga = global_approval,
                             !.was = PendingKinds, !.stored = payload,
                             !.before = pending[k], !.snap = Snapshot,
                             !.cmd = IF k = "shell_cmd" THEN payload.cmd ELSE <<>>,
                             !.ret = ret, !.log = log]
    /\ UNCHANGED <<session_unlocked, session_pin, vault_file, secret_flow, global_approval, fs, aside>>

\* a tool call that returns without storing anything
Refuse(k, ret, log) ==
    /\ session_unlocked
    /\ last' = [Blank EXCEPT !.op = "propose", !.kind = k, !.ga = global_approval,
                             !.was = PendingKinds, !.before = pending[k],
                             !.ret = ret, !.log = log]
    /\ UNCHANGED <<session_unlocked, session_pin, vault_file, secret_flow, global_approval, pending, fs,
                   backups, temps, nprop, aside>>

\* tempfile.NamedTemporaryFile(delete=False): a file name not used before
NewTemp == nprop + 1

\* a faulty diff that always carries its two header lines
show_diff_headers(old, new) == "diff"

\* "".join(difflib.unified_diff(lines1, lines2, ...)): empty when both files
\* hold the same lines
show_diff(old, new) == IF old = new THEN "" ELSE "diff"

\* diff_text of edit_or_create_file: the backup just taken against the staged
\* content; no diff for a file that does not exist
diff_text(files, path, content) ==
    IF Exists(files, path) THEN show_diff(files[path], content) ELSE ""

EditOrCreateFile(path, content) ==
    IF ~InHome(path)
    THEN Refuse("file_change", "Permission denied", <<>>)
    ELSE Store("file_change",
               [abs_path |-> path, content |-> content,
                op_type |-> IF Exists(fs, path) THEN "edit" ELSE "create",
                backup_path |-> IF Exists(fs, path) THEN Len(backups[path]) + 1 ELSE 0,
                temp_path |-> NewTemp],
               IF Exists(fs, path) THEN copy_backup(backups, fs, path) ELSE backups,
               temps \cup {NewTemp},
               IF diff_text(fs, path, content) # ""
               THEN "Diff preview: Is that OK?"
               ELSE "(No diff preview available.) Is that OK?",
               IF Exists(fs, path) THEN <<"backup_file", "prepare_edit_or_create">>
               ELSE <<"prepare_edit_or_create">>)

WriteUIFile(path, content) ==
    Store("ui_file",
          [abs_path |-> path, content |-> content,
           backup_path |-> IF Exists(fs, path) THEN Len(backups[path]) + 1 ELSE 0,
           temp_path |-> NewTemp],
          IF Exists(fs, path) THEN copy_backup(backups, fs, path) ELSE backups,
          temps \cup {NewTemp},
          "Is this OK?",
          IF Exists(fs, path) THEN <<"ui_file_backup", "ui_file_prepare">>
          ELSE <<"ui_file_prepare">>)

\* run_shell_command
RunShell(cmd) ==
    IF is_blocked(cmd)
    THEN /\ session_unlocked
         /\ last' = [Blank EXCEPT !.op = "propose", !.kind = "shell_cmd",
                                  !.ga = global_approval, !.was = PendingKinds,
                                  !.before = pending["shell_cmd"], !.cmd = cmd,
                                  !.ret = "[BLOCKED]",
                                  !.log = <<"blocked_shell_command">>]
         /\ UNCHANGED <<session_unlocked, session_pin, vault_file, secret_flow, global_approval, pending,
                        fs, backups, temps, nprop, aside>>
    ELSE IF ~is_safe(cmd)
    THEN Store("shell_cmd", [cmd |-> cmd], backups, temps, "ok to run?", <<>>)
    ELSE /\ session_unlocked
         /\ \E out \in {"ok", "raise"} :
               last' = [Blank EXCEPT !.op = "propose", !.kind = "shell_cmd",
                                     !.ga = global_approval, !.was = PendingKinds,
                                     !.before = pending["shell_cmd"], !.cmd = cmd,
                                     !.direct = TRUE, !.ran = TRUE,
                                     !.raised = (out = "raise"),
                                     !.ret = IF out = "ok" THEN "Shell output (clipped)"
                                             ELSE "Shell command error",
                                     !.log = IF out = "ok" THEN <<"run_shell">>
                                             ELSE <<"run_shell_fail">>]
         /\ UNCHANGED <<session_unlocked, session_pin, vault_file, secret_flow, global_approval, pending,
                        fs, backups, temps, nprop, aside>>

RunPipInstall(package) ==
    IF package = ""
    THEN Refuse("pip_install", "No package specified for pip install.", <<>>)
    ELSE Store("pip_install", [package |-> package], backups, temps, "Ok to run?", <<>>)

\* without a package the payload is the cwd alone, not a tuple
RunNpmInstall(package) ==
    Store("npm_install", [package |-> package, is_tuple |-> (package # "")],
          backups, temps, "Ok to run?", <<>>)

GitHubClone(dest) ==
    IF ~InHome(dest)
    THEN Refuse("github_clone", "Permission denied", <<>>)
    ELSE Store("github_clone", [dest_dir |-> dest], backups, temps, "Clone repo?", <<>>)

GitHubPush(dir) ==
    IF ~InHome(dir)
    THEN Refuse("github_push", "Permission denied", <<>>)
    ELSE Store("github_push", [local_dir |-> dir], backups, temps, "Push?", <<>>)

\* api_get and api_post share the slot pending_api_call
APICall(method, url) ==
    IF url = ""
    THEN Refuse("api_call", "No URL provided.", <<>>)
    ELSE Store("api_call", [method |-> method, url |-> url], backups, temps,
               "ok to run?", <<>>)

\* generate_docstrings
CodeGenerateDocs(target) ==
    IF target = ""
    THEN Refuse("doc_gen", "No target path specified.", <<>>)
    ELSE IF ~Exists(fs, target)
    THEN Refuse("doc_gen", "Target file does not exist", <<>>)
    ELSE Store("doc_gen", [abs_target |-> target], backups, temps, "Proceed?", <<>>)

PipAudit ==
    Store("pip_audit", [path |-> "."], backups, temps, "Run audit?", <<>>)

SuggestInstaller ==
    Store("installer", [prj |-> "~"], backups, temps,
          "Would you like to build the universal installer?",
          <<"suggest_installer">>)

\* restore.list_file_backups
RestoreListFileBackups(target) ==
    IF Len(backups[target]) = 0
    THEN Refuse("backup_restore", "No backups found", <<>>)
    ELSE Store("backup_restore", [path |-> target, n |-> Len(backups[target])],
               backups, temps, "Reply with the index number to restore",
               <<"list_file_backups">>)

(***************************************************************************)
(* Tools that act in the call that receives the request                    *)
(***************************************************************************)
RunsAtOnce(k, ran, raised, ret, log, files) ==
    /\ session_unlocked
    /\ fs' = files
    /\ last' = [Blank EXCEPT !.op = "tool", !.kind = k, !.ga = global_approval,
                             !.was = PendingKinds, !.direct = ran, !.ran = ran,
                             !.raised = raised, !.ret = ret, !.log = log]
    /\ UNCHANGED <<session_unlocked, session_pin, vault_file, secret_flow, global_approval, pending,
                   backups, temps, nprop, aside>>

\* what subprocess.run does with the script, and what os.remove does
RunOutcomes == {"ok", "timeout", "raise"}

RemoveOutcomes == {"ok", "fail"}

\* open(temp_path, "w") and f.write(code)
write_script(files, path) == files \cup {path}

\* os.remove that leaves the file where it is
os_remove_kept(files, path, rm) == files

\* os.remove(temp_path) in "finally"
os_remove(files, path, rm) == IF rm = "ok" THEN files \ {path} ELSE files

\* the event of a run and the text returned
RunLog(k, out) ==
    IF out = "ok" THEN <<k>>
    ELSE IF out = "timeout" THEN <<k \o "_timeout">> ELSE <<k \o "_error">>

ScriptReturn(k, out) ==
    IF out = "ok"
    THEN (IF k = "exec_python" THEN "Python run output" ELSE "Node.js run output")
    ELSE IF out = "timeout"
         THEN (IF k = "exec_python" THEN "Python code execution timed out."
                                    ELSE "Node code execution timed out.")
         ELSE "Error running code"

\* one call of a code runner: the script is written, run and removed in
\* "finally"; a failing removal is logged and the result returned all the same
RunsScript(k, path, valid, out, rm) ==
    /\ session_unlocked
    /\ scripts' = IF valid THEN os_remove(write_script(scripts, path), path, rm)
                           ELSE scripts
    /\ last' = [Blank EXCEPT !.op = "tool", !.kind = k, !.ga = global_approval,
                             !.was = PendingKinds, !.direct = valid, !.ran = valid,
                             !.raised = valid /\ out = "raise",
                             !.ret = IF valid THEN ScriptReturn(k, out)
                                     ELSE "Refused to execute Python",
                             !.log = IF ~valid THEN <<"exec_python_syntax_error">>
                                     ELSE RunLog(k, out) \o
                                          (IF rm = "ok" THEN <<>>
                                           ELSE <<"tempfile_remove_fail">>),
                             !.script = [path |-> path, valid |-> valid,
                                         out |-> out, rm |-> rm,
                                         written |-> IF valid
                                                     THEN write_script(scripts, path)
                                                     ELSE scripts]]
    /\ UNCHANGED <<session_unlocked, session_pin, vault_file, secret_flow, global_approval,
                   pending, fs, backups, temps, nprop, queue, log_file, write_lock,
                   thread_pc>>

\* Python that fails the syntax check is refused before the script is opened
ExecPythonCode(valid, out, rm) ==
    /\ ~valid => out = "ok" /\ rm = "ok"
    /\ RunsScript("exec_python", "temp_agent_run.py", valid, out, rm)

\* Node.js code is not validated
ExecNodeCode(out, rm) ==
    RunsScript("exec_node", "temp_agent_run.js", TRUE, out, rm)

\* files.restore_file_backup: backup_path names backup idx of path
RestoreFileBackup(path, idx, out) ==
    IF idx < 1 \/ idx > Len(backups[path])
    THEN /\ out = "ok"
         /\ RunsAtOnce("restore_file_backup", FALSE, FALSE,
                       "Backup file not found.", <<>>, fs)
    ELSE /\ out \in {"ok", "raise"}
         /\ RunsAtOnce("restore_file_backup", TRUE, out = "raise",
                       IF out = "ok" THEN "has been restored from backup"
                       ELSE "Restore error",
                       IF out = "ok" THEN <<"restore_file_backup">>
                       ELSE <<"restore_file_backup_fail">>,
                       IF out = "ok" THEN [fs EXCEPT ![path] = backups[path][idx]]
                       ELSE fs)

CodeSearchRipgrep(out) ==
    /\ out \in {"ok", "raise"}
    /\ RunsAtOnce("code_search", TRUE, out = "raise",
                  IF out = "ok" THEN "[ripgrep search result]"
                  ELSE "ripgrep search error",
                  IF out = "ok" THEN <<"code_search">> ELSE <<"code_search_error">>,
                  fs)

(***************************************************************************)
(* Resolve: a handler called on its own                                    *)
(***************************************************************************)
\* the outcomes an operation can have once it is started, given the result r
\* of the call when all goes well; only a file write can fail half-way
OutcomesOf(r) ==
    IF ~r.ran THEN {"ok"}
    ELSE IF r.kind \in {"file_change", "ui_file", "installer"} THEN Outcomes
    ELSE {"ok", "raise"}

\* the previous call proposed the action this call resolves
Follows(r) ==
    /\ last.op = "propose"
    /\ last.stored # NoPending
    /\ last.kind = r.kind

ApplyWith(op, route, yes, r, detail) ==
    /\ pending' = r.s.pending
    /\ fs' = r.s.fs
    /\ temps' = r.s.temps
    /\ last' = [op |-> op, route |-> route, kind |-> r.kind,
                ga |-> global_approval, affirmative |-> yes,
                was |-> PendingKinds, found |-> r.found,
                before |-> IF r.kind = "none" THEN NoPending ELSE pending[r.kind],
                aff |-> r.aff, ran |-> r.ran, raised |-> r.raised,
                ret |-> r.ret, log |-> r.log, errors |-> r.errors,
                cmd |-> <<>>, direct |-> FALSE, stored |-> NoPending,
                follows |-> Follows(r),
                snap |-> IF Follows(r) THEN last.snap ELSE NoSnap,
                asked |-> IF Follows(r) THEN last.stored ELSE NoPending,
                over |-> IF Follows(r) THEN last.before ELSE NoPending,
                prev |-> IF r.kind \in {"file_change", "ui_file"}
                         THEN fs[r.found.abs_path]
                         ELSE IF r.kind = "backup_restore" /\ r.found # NoPending
                         THEN fs[r.found.path] ELSE "none",
                vault |-> NoCall, save |-> "none", retry |-> NoCall,
     script |-> NoCall, task |-> NoCall, logged |-> NoCall,
     detail |-> detail]
    /\ UNCHANGED <<session_unlocked, session_pin, vault_file, secret_flow, global_approval, backups, nprop, aside>>

Apply(op, route, yes, r) == ApplyWith(op, route, yes, r, NoCall)

\* a call that finds the slot empty returns at once, whatever msg is: one
\* value is drawn for it
Resolve(k, msg) ==
    /\ session_unlocked
    /\ pending[k] = NoPending => msg = <<"no">>
    /\ \E r \in {handler(k, msg, global_approval, "ok", CurrentState)} :
          \E out \in OutcomesOf(r) :
              Apply("resolve", "none", r.found # NoPending /\ SaysYes(msg),
                    IF out = "ok" THEN r
                    ELSE handler(k, msg, global_approval, out, CurrentState))

\* the tool DocstringCoverage is bound to handle_pending_doc_gen(args, ...):
\* user_message is the args dict, and is_affirmative(dict) raises
\* AttributeError after the pending action has been popped
DocstringCoverage ==
    /\ session_unlocked
    /\ IF pending["doc_gen"] # NoPending /\ ~global_approval
       THEN Apply("tool", "none", FALSE,
                  Result(PopPending(CurrentState, "doc_gen"), "doc_gen",
                         pending["doc_gen"], FALSE, FALSE, FALSE, "RAISES", <<>>))
       ELSE \E r \in {handle_pending_doc_gen(<<>>, global_approval, "ok", CurrentState)} :
               \E out \in OutcomesOf(r) :
                   Apply("tool", "none", FALSE,
                         IF out = "ok" THEN r
                         ELSE handle_pending_doc_gen(<<>>, global_approval, out,
                                                     CurrentState))

(***************************************************************************)
(* agent_chat                                                              *)
(***************************************************************************)
\* message.strip() without a leading "pin:"
PinEntry(msg) ==
    IF Len(msg) > 1 /\ LowerWord(msg[1]) = "pin:" THEN Tail(msg) ELSE msg

\* a test that takes digits of any number for a PIN
AnyDigits(e) == Len(e) = 1 /\ DigitsLen(e[1]) >= 1

\* pin_entry.isdigit() and 5 <= len(pin_entry) <= 6
WellFormedPin(e) == Len(e) = 1 /\ DigitsLen(e[1]) >= 5 /\ DigitsLen(e[1]) <= 6

\* load_vault(pin) is not None: no vault file yet, or the PIN decrypts it
load_vault_ok(pin) == load_vault(vault_file, pin) # NoneValue

TrustPhrases ==
    { <<"trust", "session">>, <<"enable", "global", "approval">>, <<"approve", "all">> }

RevokePhrases ==
    { <<"lock", "agent">>, <<"revoke", "global", "approval">>, <<"disable", "trust">> }

IsViewRequest(lc) ==
    \E p \in { <<"view", "file">>, <<"show", "file">>, <<"read", "file">>, <<"cat">> } :
        StartsWith(lc, p)

IsSearchRequest(lc) ==
    \E p \in { <<"search">>, <<"find">>, <<"grep">>, <<"symbol">> } :
        Len(lc) > 1 /\ StartsWith(lc, p)

IsListRequest(lc) ==
    \E p \in { <<"list", "backups">>, <<"show", "backups">> } : StartsWith(lc, p)

\* the branch agent_chat takes in an unlocked session
Route(msg) ==
    LET lc == Lower(msg)
    IN  CASE lc \in TrustPhrases -> "trust"
          [] lc \in RevokePhrases -> "revoke"
          [] IsViewRequest(lc) -> "view"
          [] IsSearchRequest(lc) -> "search"
          [] IsListRequest(lc) -> "list"
          [] OTHER -> "pending"

\* a branch that ends the turn without looking at the pending actions
Reply(route, msg, ga, ran, ret, log) ==
    /\ global_approval' = ga
    /\ last' = [Blank EXCEPT !.op = "chat", !.route = route, !.ga = global_approval,
                             !.affirmative = (PendingKinds # {} /\ SaysYes(msg)),
                             !.was = PendingKinds, !.direct = ran, !.ran = ran,
                             !.ret = ret, !.log = log]
    /\ UNCHANGED <<session_pin, vault_file, secret_flow, pending, fs, backups, temps, nprop, aside>>

\* ---------------------------------------------------------------------
\* The task queue (agent_tools/task_manager.py) and the drain loop of
\* agent_chat
\* ---------------------------------------------------------------------

\* the queue holds at most this many tasks
MaxTasks == 3

Priorities == {1, 3, 5}

\* an action is a name (the annotated type of add_task) or a callable, which
\* returns or raises when called
Actions ==
    { [name |-> "a", kind |-> "str"], [name |-> "b", kind |-> "str"],
      [name |-> "f", kind |-> "fn"], [name |-> "g", kind |-> "fn_raises"] }

\* params dictionaries by their keys; None becomes {} in the task
Params == { {}, {"x"} }

NoTask == [none |-> TRUE]

\* json.dumps raises TypeError on a function
Serialisable(action) == action.kind = "str"

\* x < y on (priority, task) tuples: the first items decide when they differ;
\* equal dicts make the tuples equal; unequal dicts are compared with <, which
\* dicts do not support
TupleLt(x, y) ==
    IF x[1] # y[1] THEN (IF x[1] < y[1] THEN "lt" ELSE "ge")
    ELSE IF x[2] = y[2] THEN "ge" ELSE "TypeError"

\* heap[i], heap[j] = heap[j], heap[i] at 0-based positions
Swap(heap, i, j) == [heap EXCEPT ![i + 1] = heap[j + 1], ![j + 1] = heap[i + 1]]

\* heapq siftdown: the item at pos moves up while it is less than its parent;
\* a comparison that raises leaves the list as it is at that moment
siftdown(heap, startpos, pos) ==
    LET RECURSIVE down(_)
        down(a) ==
            IF a.pos <= startpos THEN [heap |-> a.heap, raised |-> FALSE]
            ELSE LET parentpos == (a.pos - 1) \div 2
                     c == TupleLt(a.heap[a.pos + 1], a.heap[parentpos + 1])
                 IN IF c = "TypeError" THEN [heap |-> a.heap, raised |-> TRUE]
                    ELSE IF c = "ge" THEN [heap |-> a.heap, raised |-> FALSE]
                    ELSE down([heap |-> Swap(a.heap, a.pos, parentpos),
                               pos |-> parentpos])
    IN down([heap |-> heap, pos |-> pos])

\* heapq siftup: the smaller child moves up until a leaf is reached, then the
\* item is sifted down from there
siftup(heap, pos) ==
    LET endpos == Len(heap)
        limit == endpos \div 2
        RECURSIVE up(_)
        up(a) ==
            IF a.pos >= limit THEN siftdown(a.heap, pos, a.pos)
            ELSE LET childpos == 2 * a.pos + 1
                     c == IF childpos + 1 < endpos
                          THEN TupleLt(a.heap[childpos + 1], a.heap[childpos + 2])
                          ELSE "lt"
                     child == IF c = "ge" THEN childpos + 1 ELSE childpos
                 IN IF c = "TypeError" THEN [heap |-> a.heap, raised |-> TRUE]
                    ELSE up([heap |-> Swap(a.heap, a.pos, child), pos |-> child])
    IN up([heap |-> heap, pos |-> pos])

\* heapq.heappush: list.append, then siftdown from the new leaf
heappush(heap, item) == siftdown(Append(heap, item), 0, Len(heap))

\* heapq.heappop of a list that is not empty: the last item replaces the root
\* and is sifted; when a comparison raises, the root is lost with the error
heappop(heap) ==
    LET lastelt == heap[Len(heap)]
        rest == SubSeq(heap, 1, Len(heap) - 1)
    IN IF rest = <<>>
       THEN [heap |-> rest, raised |-> FALSE, item |-> lastelt]
       ELSE LET r == siftup([rest EXCEPT ![1] = lastelt], 0)
            IN [heap |-> r.heap, raised |-> r.raised,
                item |-> IF r.raised THEN <<0, NoTask>> ELSE heap[1]]

\* the dictionary add_task builds
Task(action, params, priority) ==
    [priority |-> 0 - priority, action |-> action, params |-> params]

\* add_task: heappush, then the add_task event, whose serialisation raises on
\* a callable action after the task was pushed
add_task(q, action, params, priority) ==
    LET r == heappush(q, <<0 - priority, Task(action, params, priority)>>)
        t == Task(action, params, priority)
    IN IF r.raised
       THEN [queue |-> r.heap, raised |-> TRUE, log |-> <<>>, task |-> t]
       ELSE IF ~Serialisable(action)
            THEN [queue |-> r.heap, raised |-> TRUE, log |-> <<>>, task |-> t]
            ELSE [queue |-> r.heap, raised |-> FALSE, log |-> <<"add_task">>,
                  task |-> t]

\* next_task: None when the queue is empty, else heappop and the next_task
\* event, which holds the task and so its action
next_task(q) ==
    IF q = <<>> THEN [queue |-> q, raised |-> FALSE, task |-> NoTask, log |-> <<>>]
    ELSE LET p == heappop(q)
         IN IF p.raised
            THEN [queue |-> p.heap, raised |-> TRUE, task |-> NoTask, log |-> <<>>]
            ELSE IF ~Serialisable(p.item[2].action)
                 THEN [queue |-> p.heap, raised |-> TRUE, task |-> NoTask,
                       log |-> <<>>]
                 ELSE [queue |-> p.heap, raised |-> FALSE, task |-> p.item[2],
                       log |-> <<"next_task">>]

has_tasks(q) == Len(q) > 0

\* the loop of agent_chat: next_task is called outside the try; the action is
\* called with the params; an exception of the call is caught and logged as
\* task_error, whose serialisation raises out of the handler on a callable
drain(q) ==
    LET RECURSIVE loop(_)
        loop(a) ==
            IF ~has_tasks(a.queue) THEN a
            ELSE LET n == next_task(a.queue)
                 IN IF n.raised
                    THEN [a EXCEPT !.queue = n.queue, !.raised = TRUE]
                    ELSE LET b == [a EXCEPT !.queue = n.queue,
                                            !.log = a.log \o n.log,
                                            !.popped = Append(a.popped, n.task)]
                         IN IF n.task.action.kind = "fn"
                            THEN loop([b EXCEPT !.ran = Append(b.ran, n.task)])
                            ELSE IF n.task.action.kind = "fn_raises"
                            THEN [b EXCEPT !.ran = Append(b.ran, n.task),
                                           !.raised = TRUE]
                            ELSE loop([b EXCEPT
                                         !.log = b.log \o <<"task_error">>,
                                         !.failed = Append(b.failed, n.task)])
    IN loop([queue |-> q, raised |-> FALSE, log |-> <<>>, popped |-> <<>>,
             ran |-> <<>>, failed |-> <<>>])

\* what a call on the task queue did
TaskCall(fn, before, res) == [fn |-> fn, before |-> before, res |-> res]

AddTask(action, params, priority) ==
    /\ Len(queue) < MaxTasks
    /\ \E r \in {add_task(queue, action, params, priority)} :
          /\ queue' = r.queue
          /\ last' = [Blank EXCEPT !.op = "add_task", !.raised = r.raised,
                                   !.log = r.log,
                                   !.task = TaskCall("add_task", queue, r)]
    /\ UNCHANGED <<session_unlocked, session_pin, vault_file, secret_flow, global_approval,
                   pending, fs, backups, temps, nprop, scripts, log_file,
                   write_lock, thread_pc>>

NextTask ==
    /\ \E r \in {next_task(queue)} :
          /\ queue' = r.queue
          /\ last' = [Blank EXCEPT !.op = "next_task", !.raised = r.raised,
                                   !.log = r.log,
                                   !.task = TaskCall("next_task", queue, r)]
    /\ UNCHANGED <<session_unlocked, session_pin, vault_file, secret_flow, global_approval,
                   pending, fs, backups, temps, nprop, scripts, log_file,
                   write_lock, thread_pc>>

\* handle_pending_all has returned None: the secret-storage workflow takes
\* the message
SecretStep(msg, r, w) ==
    /\ WithinBound(w.vault)
    /\ pending' = r.s.pending
    /\ fs' = r.s.fs
    /\ temps' = r.s.temps
    /\ vault_file' = w.vault
    /\ secret_flow' = w.flow
    \* a message that no handler answered reaches the loop over the task queue
    /\ \E d \in {IF w.ret = "None" THEN TaskCall("drain", queue, drain(queue))
                  ELSE NoCall} :
          /\ queue' = IF d = NoCall THEN queue ELSE d.res.queue
          /\ last' = [Blank EXCEPT !.op = "chat",
                                   !.route = IF w.ret # "None" THEN "secret"
                                             ELSE "passed on",
                                   !.ga = global_approval,
                                   !.affirmative = (PendingKinds # {} /\ SaysYes(msg)),
                                   !.was = PendingKinds, !.ret = w.ret,
                                   !.log = r.log, !.errors = r.errors,
                                   !.vault = w.call,
                                   !.raised = IF d = NoCall THEN FALSE
                                              ELSE d.res.raised,
                                   !.task = d]
    /\ UNCHANGED <<session_pin, global_approval, backups, nprop, scripts,
                   log_file, write_lock, thread_pc>>

AgentChat(msg) ==
    IF ~session_unlocked
    THEN /\ session_unlocked' =
               (WellFormedPin(PinEntry(msg)) /\ load_vault_ok(PinEntry(msg)[1]))
         /\ last' = [Blank EXCEPT !.op = "chat", !.route = "locked",
                                  !.ret = IF ~WellFormedPin(PinEntry(msg))
                                          THEN "Enter your 5-6 digit PIN:"
                                          ELSE IF load_vault_ok(PinEntry(msg)[1])
                                          THEN "PIN accepted!"
                                          ELSE "Incorrect PIN."]
         /\ session_pin' =
               IF WellFormedPin(PinEntry(msg)) /\ load_vault_ok(PinEntry(msg)[1])
               THEN PinEntry(msg)[1] ELSE session_pin
         /\ UNCHANGED <<vault_file, secret_flow, global_approval, pending, fs,
                        backups, temps, nprop, aside>>
    ELSE /\ UNCHANGED session_unlocked
         /\ \E route \in {Route(msg)} :
              CASE route = "trust" ->
                    Reply("trust", msg, TRUE, FALSE, "Global approval enabled.", <<>>)
                [] route = "revoke" ->
                    Reply("revoke", msg, FALSE, FALSE, "Global approval disabled.", <<>>)
                [] route = "view" ->
                    \* read_any_file
                    Reply("view", msg, global_approval, FALSE, "content", <<"read_file">>)
                [] route = "search" ->
                    \* code_search_ripgrep runs rg at once
                    \E out \in {"ok", "raise"} :
                        Reply("search", msg, global_approval, TRUE,
                              IF out = "ok" THEN "[ripgrep search result]"
                              ELSE "ripgrep search error",
                              IF out = "ok" THEN <<"code_search">>
                              ELSE <<"code_search_error">>)
                [] route = "list" ->
                    \* files.list_file_backups reads args["path"], which is not given
                    Reply("list", msg, global_approval, FALSE,
                          "No target file path specified.", <<>>)
                [] OTHER ->
                    \E r \in {handle_pending_all(msg, global_approval, "ok", CurrentState)} :
                        IF r.ret # "None"
                        THEN \E out \in OutcomesOf(r) :
                                Apply("chat", "pending",
                                      PendingKinds # {} /\ SaysYes(msg),
                                      IF out = "ok" THEN r
                                      ELSE handle_pending_all(msg, global_approval, out,
                                                              CurrentState))
                        ELSE \E w \in {handle_pending_secret_workflow(
                                           msg, secret_flow, vault_file, session_pin)} :
                                SecretStep(msg, r, w)

\* the approval gate: proposals, replies and the session controller
Next ==
    \/ \E msg \in Msgs : AgentChat(msg)
    \/ \E path \in {"f", "g"}, content \in NewContents :
          EditOrCreateFile(path, content)
    \/ \E content \in NewContents : WriteUIFile("i", content)
    \/ \E cmd \in Cmds : RunShell(cmd)
    \/ RunPipInstall("pkg")
    \/ \E package \in {"", "pkg"} : RunNpmInstall(package)
    \/ GitHubClone("g")
    \/ GitHubPush("g")
    \/ \E method \in {"GET", "POST"} : APICall(method, "u")
    \/ CodeGenerateDocs("f")
    \/ PipAudit
    \/ SuggestInstaller
    \/ RestoreListFileBackups("f")
    \/ \E k \in Kinds, msg \in ReplyMsgs : Resolve(k, msg)
    \/ DocstringCoverage

Spec == Init /\ [][Next]_vars

\* ---------------------------------------------------------------------
\* The event logger (agent_tools/ragis_logger.py)
\* ---------------------------------------------------------------------

\* the log file holds at most this many records
MaxLog == 2

SYSTEM_VERSION == "1.0.0"

TAGGING_VERSION == "1.0.0"

\* Python values by type: a string, a number, None, a list, a tuple or a dict
\* (keys[i] maps to items[i])
Str(s) == [t |-> "str", s |-> s, keys |-> <<>>, items |-> <<>>]

Num(s) == [t |-> "num", s |-> s, keys |-> <<>>, items |-> <<>>]

None == [t |-> "null", s |-> "", keys |-> <<>>, items |-> <<>>]

List(items) == [t |-> "list", s |-> "", keys |-> <<>>, items |-> items]

Tuple(items) == [t |-> "tuple", s |-> "", keys |-> <<>>, items |-> items]

Dict(keys, items) == [t |-> "dict", s |-> "", keys |-> keys, items |-> items]

\* a _mask_pii that returns lists and dicts as they are
mask_pii_shallow(value) ==
    IF value.t = "str" THEN Str("[MASKED]")
    ELSE IF value.t \in {"dict", "list"} THEN value
    ELSE None

\* _mask_pii: "[MASKED]" for a string, dicts and lists value by value, None
\* for anything else (a tuple is not a list)
mask_pii(value) ==
    LET RECURSIVE mask(_)
        mask(v) ==
            IF v.t = "str" THEN Str("[MASKED]")
            ELSE IF v.t \in {"dict", "list"}
            THEN [v EXCEPT !.items = [i \in 1..Len(v.items) |-> mask(v.items[i])]]
            ELSE None
    IN mask(value)

\* json.dumps, read back: a tuple is written as an array
dumps(value) ==
    LET RECURSIVE dump(_)
        dump(v) ==
            IF v.t \in {"dict", "list", "tuple"}
            THEN [v EXCEPT !.t = IF v.t = "tuple" THEN "list" ELSE v.t,
                           !.items = [i \in 1..Len(v.items) |-> dump(v.items[i])]]
            ELSE v
    IN dump(value)

\* pii_mask_fields of the logger of files.py, of secure_vault.py and of
\* task_manager.py
MaskFields(l) ==
    IF l = "files" THEN {"content", "abs_path", "temp_path", "backup_path"}
    ELSE IF l = "secure_vault" THEN {"name", "value", "pin"}
    ELSE {}

\* masked = dict(data), then masked[field] = _mask_pii(masked[field]) for
\* every configured field that is in it
masked_copy(data, fields) ==
    [f \in DOMAIN data |-> IF f \in fields THEN mask_pii(data[f]) ELSE data[f]]

\* the record log() builds and _write serialises
log_record(event_type, data, fields) ==
    [ts |-> "utc_now_iso", event_type |-> event_type,
     system_version |-> SYSTEM_VERSION, tagging_version |-> TAGGING_VERSION,
     data |-> [f \in DOMAIN data |-> dumps(masked_copy(data, fields)[f])]]

\* values a caller logs
LoggedValues ==
    { Str("secret"), Num("7"), None,
      List(<<Str("secret"), Num("7")>>),
      Dict(<<"k">>, <<Str("secret")>>),
      Dict(<<"k", "n">>, <<List(<<Str("secret")>>), Num("7")>>),
      Tuple(<<Str("secret")>>) }

\* the data of an event: a content or none, with a note or none
LoggedData ==
    { d \in UNION { [fields -> LoggedValues] :
                       fields \in SUBSET {"content", "note"} } :
        "note" \in DOMAIN d =>
            d["note"] \in { Str("secret"), Tuple(<<Str("secret")>>),
                            List(<<Str("secret"), Num("7")>>) } }

\* what a call of log did; the caller's mapping is only read: the fields are
\* assigned in the copy and _mask_pii builds new lists and dicts
LogCall(l, data, record) ==
    [logger |-> l, data |-> data, after |-> data, record |-> record,
     before |-> log_file]

\* log(event_type, data) of logger l by a single thread
Log(l, event_type, data) ==
    /\ Len(log_file) < MaxLog
    /\ \A t \in Threads : thread_pc[t] = Idle
    /\ log_file' = Append(log_file, log_record(event_type, data, MaskFields(l)))
    /\ last' = [Blank EXCEPT !.op = "log", !.kind = event_type,
                             !.logged = LogCall(l, data,
                                 log_record(event_type, data, MaskFields(l)))]
    /\ UNCHANGED <<session_unlocked, session_pin, vault_file, secret_flow, global_approval,
                   pending, fs, backups, temps, nprop, scripts, queue,
                   write_lock, thread_pc>>

NextLog ==
    \E l \in Loggers, event_type \in {"file_change"}, data \in LoggedData :
        Log(l, event_type, data)

SpecLog == Init /\ [][NextLog]_vars

\* log() run by several threads, step by step: the record is built, the
\* lock of the logger instance is taken, the file is opened for append, the
\* line is written, the file is closed and the lock released
LogBegin(t, l, data) ==
    /\ thread_pc[t] = Idle
    /\ Len(log_file) + Cardinality({u \in Threads : thread_pc[u] # Idle}) < MaxLog
    /\ thread_pc' = [thread_pc EXCEPT ![t] =
                        [at |-> "acquire", logger |-> l,
                         record |-> log_record("file_change", data, MaskFields(l))]]
    /\ UNCHANGED <<session_unlocked, session_pin, vault_file, secret_flow, global_approval,
                   pending, fs, backups, temps, nprop, scripts, queue, log_file,
                   write_lock, last>>

\* with self._write_lock: blocks while another thread holds the lock of the
\* same instance
LogAcquire(t) ==
    /\ thread_pc[t] # Idle
    /\ thread_pc[t].at = "acquire"
    /\ write_lock[thread_pc[t].logger] = "free"
    /\ write_lock' = [write_lock EXCEPT ![thread_pc[t].logger] = t]
    /\ thread_pc' = [thread_pc EXCEPT ![t].at = "open"]
    /\ UNCHANGED <<session_unlocked, session_pin, vault_file, secret_flow, global_approval,
                   pending, fs, backups, temps, nprop, scripts, queue, log_file,
                   last>>

\* open(self.log_path, "a"), f.write(...) and the close at the end of the
\* inner with
LogFileStep(t, from, to) ==
    /\ thread_pc[t] # Idle
    /\ thread_pc[t].at = from
    /\ thread_pc' = [thread_pc EXCEPT ![t].at = to]
    /\ log_file' = IF from = "write" THEN Append(log_file, thread_pc[t].record)
                   ELSE log_file
    /\ UNCHANGED <<session_unlocked, session_pin, vault_file, secret_flow, global_approval,
                   pending, fs, backups, temps, nprop, scripts, queue,
                   write_lock, last>>

LogOpen(t) == LogFileStep(t, "open", "write")

LogWrite(t) == LogFileStep(t, "write", "close")

LogClose(t) == LogFileStep(t, "close", "release")

\* the end of the outer with releases the lock
LogRelease(t) ==
    /\ thread_pc[t] # Idle
    /\ thread_pc[t].at = "release"
    /\ write_lock' = [write_lock EXCEPT ![thread_pc[t].logger] = "free"]
    /\ thread_pc' = [thread_pc EXCEPT ![t] = Idle]
    /\ UNCHANGED <<session_unlocked, session_pin, vault_file, secret_flow, global_approval,
                   pending, fs, backups, temps, nprop, scripts, queue, log_file,
                   last>>

\* the thread has ragis_events.log open
FileOpen(t) == thread_pc[t] # Idle /\ thread_pc[t].at \in {"write", "close"}

NextLogThreads ==
    \/ \E t \in Threads, l \in Loggers,
          data \in { [content |-> Str("secret")], [note |-> Num("7")] } :
          LogBegin(t, l, data)
    \/ \E t \in Threads : LogAcquire(t)
    \/ \E t \in Threads : LogOpen(t)
    \/ \E t \in Threads : LogWrite(t)
    \/ \E t \in Threads : LogClose(t)
    \/ \E t \in Threads : LogRelease(t)

SpecLogThreads == Init /\ [][NextLogThreads]_vars

\* ---------------------------------------------------------------------
\* The approved branch of handle_pending_github_push
\* ---------------------------------------------------------------------

\* the subcommands in the order of the list cmds
PushCmds == <<"add", "commit", "push">>

\* what one subprocess.run of a subcommand does: it returns with exit status
\* 0, it returns with a non-zero status and "nothing to commit" on stdout
\* (check is not set, so nothing is raised), or it raises, with a text that
\* holds "nothing to commit" or not
GitOutcomes == {"ok", "nothing", "TimeoutExpired", "RaisesNothing"}

GitRaises(o) == o \in {"TimeoutExpired", "RaisesNothing"}

\* the attempts as with_retry sees them: a return is a success
AsAttempts(outs) ==
    [i \in 1..Len(outs) |-> IF GitRaises(outs[i]) THEN outs[i] ELSE "ok"]

Repeat(x, n) == [i \in 1..n |-> x]

\* one iteration of "for cmd in cmds": the subcommand goes through with_retry;
\* its exception is turned into a line of the output
push_step(cmd, r, outs) ==
    [runs |-> Repeat(cmd, r.calls),
     log |-> r.log,
     output |-> IF ~r.raised
                THEN (IF outs[r.calls] = "nothing" THEN "nothing to commit"
                      ELSE "stdout")
                ELSE IF cmd = "commit" /\ r.error = "RaisesNothing"
                     THEN "Nothing to commit."
                     ELSE "Error running"]

\* a loop that ends at the first subcommand that raised
push_loop_stopping(outs) ==
    LET RECURSIVE from(_)
        from(i) ==
            IF i > Len(PushCmds) THEN <<>>
            ELSE LET r == with_retry(AsAttempts(outs[i]), DefaultRetries)
                 IN IF r.raised THEN <<push_step(PushCmds[i], r, outs[i])>>
                    ELSE <<push_step(PushCmds[i], r, outs[i])>> \o from(i + 1)
    IN from(1)

\* the loop over cmds: every subcommand is run, whatever the one before did
push_loop(outs) ==
    [i \in 1..Len(PushCmds) |->
        push_step(PushCmds[i], with_retry(AsAttempts(outs[i]), DefaultRetries),
                  outs[i])]

Flatten(seqs) ==
    LET RECURSIVE cat(_)
        cat(i) == IF i > Len(seqs) THEN <<>> ELSE seqs[i] \o cat(i + 1)
    IN cat(1)

\* the attempts of a subcommand that are tried
GitAttempts ==
    { <<"ok", "ok", "ok">>, <<"TimeoutExpired", "ok", "ok">>,
      <<"TimeoutExpired", "TimeoutExpired", "TimeoutExpired">>,
      <<"nothing", "ok", "ok">>, <<"TimeoutExpired", "nothing", "ok">>,
      <<"RaisesNothing", "RaisesNothing", "RaisesNothing">> }

\* handle_pending_github_push called with its three arguments
ResolvePush(msg, outs) ==
    /\ session_unlocked
    /\ pending["github_push"] # NoPending
    /\ pending' = [pending EXCEPT !["github_push"] = NoPending]
    /\ \E steps \in {IF Approved("github_push", msg, global_approval)
                     THEN push_loop(outs) ELSE <<>>} :
          last' = [Blank EXCEPT
                     !.op = "resolve", !.kind = "github_push",
                     !.ga = global_approval, !.was = PendingKinds,
                     !.found = pending["github_push"],
                     !.before = pending["github_push"],
                     !.aff = Approved("github_push", msg, global_approval),
                     !.ran = Approved("github_push", msg, global_approval),
                     !.ret = IF Approved("github_push", msg, global_approval)
                             THEN "Git push done. Log"
                             ELSE CancelReturn("github_push"),
                     !.log = IF Approved("github_push", msg, global_approval)
                             THEN Flatten([i \in 1..Len(steps) |-> steps[i].log])
                                  \o <<"github_push">>
                             ELSE <<CancelEvent("github_push")>>,
                     !.detail = [outs |-> outs,
                                 runs |-> Flatten([i \in 1..Len(steps) |->
                                                      steps[i].runs]),
                                 outputs |-> [i \in 1..Len(steps) |->
                                                 steps[i].output]]]
    /\ UNCHANGED <<session_unlocked, session_pin, vault_file, secret_flow, global_approval,
                   fs, backups, temps, nprop, aside>>

NextPush ==
    \/ AgentChat(<<"12345">>)
    \/ GitHubPush("g")
    \/ \E msg \in { <<"yes">>, <<"no">> }, outs \in [1..3 -> GitAttempts] :
          ResolvePush(msg, outs)

SpecPush == Init /\ [][NextPush]_vars

\* kinds whose handler runs a subprocess with timeout=...
TimedKinds == {"shell_cmd", "pip_install", "github_clone"}

\* the handler of kind k called while the subprocess exceeds its timeout:
\* subprocess.run raises TimeoutExpired, which the handlers catch with
\* "except Exception"
ResolveTimeout(k, msg) ==
    /\ session_unlocked
    /\ pending[k] # NoPending
    /\ Apply("resolve_timeout", "none", SaysYes(msg),
             handler(k, msg, global_approval, "timeout", CurrentState))

NextTimeout ==
    \/ AgentChat(<<"12345">>)
    \/ \E cmd \in Cmds : RunShell(cmd)
    \/ RunPipInstall("pkg")
    \/ GitHubClone("g")
    \/ \E k \in TimedKinds, msg \in { <<"yes">>, <<"no">> } : ResolveTimeout(k, msg)
    \/ \E k \in TimedKinds : Resolve(k, <<"yes">>)
    \/ \E out \in RunOutcomes, rm \in RemoveOutcomes : ExecPythonCode(TRUE, out, rm)

SpecTimeout == Init /\ [][NextTimeout]_vars

\* set_secret run by several threads: load_vault reads the file, the entry is
\* changed in the thread's own mapping, and save_vault writes that mapping back
SetSecretLoad(t, name, value, pin) ==
    /\ thread_pc[t] = Idle
    /\ thread_pc' =
          [u \in Threads |->
              IF u = t
              THEN [at |-> "save", name |-> name, value |-> value, pin |-> pin,
                    read |-> vault_file,
                    overlapped |-> \E v \in Threads : thread_pc[v].at = "save"]
              ELSE IF thread_pc[u].at = "save"
              THEN [thread_pc[u] EXCEPT !.overlapped = TRUE]
              ELSE thread_pc[u]]
    /\ UNCHANGED <<session_unlocked, session_pin, vault_file, secret_flow, global_approval,
                   pending, fs, backups, temps, nprop, scripts, queue, log_file,
                   write_lock, last>>

SetSecretSave(t) ==
    /\ thread_pc[t].at = "save"
    /\ vault_file' = set_secret(thread_pc[t].read, thread_pc[t].name,
                                thread_pc[t].value, thread_pc[t].pin).vault
    /\ thread_pc' = [thread_pc EXCEPT ![t].at = "done"]
    /\ UNCHANGED <<session_unlocked, session_pin, secret_flow, global_approval,
                   pending, fs, backups, temps, nprop, scripts, queue, log_file,
                   write_lock, last>>

NextSetThreads ==
    \/ \E t \in Threads, name \in {"A", "B"}, value \in {"v1", "v2"} :
          SetSecretLoad(t, name, value, "12345")
    \/ \E t \in Threads : SetSecretSave(t)

SpecSetThreads == Init /\ [][NextSetThreads]_vars

\* a session that starts with backups of f on disk (f.bak.<timestamp>, oldest
\* first), left by earlier edits
InitRestore ==
    /\ session_unlocked = FALSE
    /\ session_pin = "none"
    /\ vault_file = save_vault(EmptyVault, "12345")
    /\ secret_flow = NoFlow
    /\ global_approval = FALSE
    /\ pending = [k \in Kinds |-> NoPending]
    /\ fs = [p \in PathNames |->
                IF p \in {"f", "i", "x"} THEN "c0" ELSE "absent"]
    /\ \E old \in { <<"b1">>, <<"b1", "b2">>, <<"b1", "b2", "b3">> } :
          backups = [p \in PathNames |-> IF p = "f" THEN old ELSE <<>>]
    /\ temps = {}
    /\ nprop = 0
    /\ InitAside
    /\ last = Blank

\* the replies to a listing of backups
RestoreReplies ==
    { <<"0">>, <<"1">>, <<"2">>, <<"-1">>, <<"99999">>, <<"cancel">>, <<"no">>,
      <<"yes">> }

\* handle_pending_backup_restore(msg, session_state) on a pending restore,
\* the copy succeeding or failing
RestoreBackup(msg) ==
    /\ session_unlocked
    /\ pending["backup_restore"] # NoPending
    /\ \E out \in {"ok", "OSError"} :
          \E r \in {handle_pending_backup_restore(msg, global_approval, out,
                                                  CurrentState)} :
              /\ (out # "ok" => r.ran)
              /\ ApplyWith("resolve", "none", SaysYes(msg), r, [msg |-> msg])

NextRestore ==
    \/ AgentChat(<<"12345">>)
    \/ RestoreListFileBackups("f")
    \/ \E msg \in RestoreReplies : RestoreBackup(msg)

SpecRestore == InitRestore /\ [][NextRestore]_vars

\* the targets a proposal can name: under the home directory, in the sibling
\* directory /home/u2, and outside ("../../etc/x" from the UI sandbox)
NextPaths ==
    \/ AgentChat(<<"12345">>)
    \/ \E path \in {"f", "s", "x"} : EditOrCreateFile(path, "c1")
    \/ \E path \in {"i", "s", "x"} : WriteUIFile(path, "c1")
    \/ \E dest \in {"g", "s", "x"} : GitHubClone(dest)
    \/ \E dir \in {"g", "s", "x"} : GitHubPush(dir)
    \/ \E k \in {"file_change", "ui_file"}, msg \in { <<"yes">>, <<"no">> } :
          Resolve(k, msg)

SpecPaths == Init /\ [][NextPaths]_vars

(***************************************************************************)
(* The events of the vault functions (secure_vault.py), written through    *)
(* the module's logger.                                                    *)
(***************************************************************************)
\* the log file of a vault session holds at most this many records
MaxVaultLog == 6

\* list(secrets.keys())
KeysOf(secrets) ==
    List([i \in 1..Len(SelectSeq(<<"A", "B", "GITHUB_PAT">>,
                                 LAMBDA n : secrets[n] # NoEntry)) |->
             Str(SelectSeq(<<"A", "B", "GITHUB_PAT">>,
                           LAMBDA n : secrets[n] # NoEntry)[i])])

\* the event load_vault(pin) logs on the vault file vf
load_vault_event(vf, pin) ==
    IF vf = NoVault
    THEN <<"vault_load_empty", [pin |-> Str(pin)]>>
    ELSE IF load_vault(vf, pin) # NoneValue
    THEN <<"vault_load", [pin |-> Str(pin), status |-> Str("success")]>>
    ELSE <<"vault_load_failed", [pin |-> Str(pin), error |-> Str("InvalidToken")]>>

\* the event save_vault(secrets, pin) logs once the file vf is written
save_vault_event(vf, pin) ==
    <<"vault_save", [pin |-> Str(pin), status |-> Str("success"),
                     keys |-> KeysOf(vf.secrets)]>>

\* the events a vault function logs, in order: call is the VaultCall of the
\* function and after the vault file it leaves
vault_events(call, after) ==
    LET loads == <<load_vault_event(call.before, call.pin)>>
        saves == <<save_vault_event(after, call.pin)>>
        who == [name |-> Str(call.name), pin |-> Str(call.pin)]
    IN  CASE call.fn = "set_secret" ->
               IF call.name = ""
               THEN << <<"set_secret_failed",
                         who @@ [error |-> Str("invalid name")]>> >>
               ELSE IF call.value = ""
               THEN << <<"set_secret_failed",
                         who @@ [error |-> Str("invalid value")]>> >>
               ELSE loads \o saves \o
                    << <<"set_secret",
                         who @@ [status |-> Str("set"), timestamp |-> Str("now")]>> >>
          [] call.fn = "get_secret" ->
               loads \o
               << IF call.ret = "None"
                  THEN <<"get_secret_failed", who @@ [error |-> Str("not found")]>>
                  ELSE <<"get_secret",
                         who @@ [archived |-> Num("False"), status |-> Str("found")]>> >>
          [] call.fn = "restore_secret" ->
               IF call.ret = "True"
               THEN loads \o saves \o
                    << <<"restore_secret",
                         who @@ [version |-> Num("version"),
                                 status |-> Str("restored"),
                                 timestamp |-> Str("now")]>> >>
               ELSE IF call.raised THEN loads
               ELSE loads \o
                    << <<"restore_secret_failed",
                         who @@ [version |-> Num("version"),
                                 error |-> Str("invalid archive")]>> >>
          [] call.fn = "delete_secret" ->
               IF call.ret = "True"
               THEN loads \o
                    << <<"delete_secret",
                         who @@ [erase_archive |-> Num("erase_archive")]>> >>
                    \o saves
               ELSE loads \o
                    << <<"delete_secret_failed",
                         who @@ [error |-> Str("not found")]>> >>
          [] OTHER ->
               LET pins == [old_pin |-> Str(call.pin), new_pin |-> Str(call.value)]
               IN  IF DigitsLen(call.value) < 5 \/ DigitsLen(call.value) > 6
                   THEN << <<"pin_change_failed",
                             pins @@ [error |-> Str("invalid pin")]>> >>
                   ELSE IF call.ret # "True"
                   THEN loads \o
                        << <<"pin_change_failed",
                             pins @@ [error |-> Str("invalid old pin")]>> >>
                   ELSE loads \o
                        <<save_vault_event(after, call.value)>> \o
                        << <<"pin_change", pins @@ [status |-> Str("success")]>> >>

\* the records logger.log appends for the events evs
vault_records(evs) ==
    [i \in 1..Len(evs) |->
        log_record(evs[i][1], evs[i][2], MaskFields("secure_vault"))]

\* a vault function called with its events written to ragis_events.log
LoggedVaultCall(call, res) ==
    /\ WithinBound(res.vault)
    /\ \E recs \in {vault_records(vault_events(call, res.vault))} :
          /\ Len(log_file) + Len(recs) <= MaxVaultLog
          /\ log_file' = log_file \o recs
    /\ vault_file' = res.vault
    /\ last' = [Blank EXCEPT !.op = "vault", !.ret = res.ret, !.raised = res.raised,
                             !.vault = call]
    /\ UNCHANGED <<session_unlocked, session_pin, secret_flow, global_approval,
                   pending, fs, backups, temps, nprop, scripts, queue, write_lock,
                   thread_pc>>

\* the task queue in use: tasks are added and taken, and turns of the
\* unlocked session that no handler answers drain the queue
NextTasks ==
    \/ \E msg \in { <<"12345">>, <<"no">> } : AgentChat(msg)
    \/ \E action \in Actions, params \in Params, priority \in Priorities :
          AddTask(action, params, priority)
    \/ NextTask

SpecTasks == Init /\ [][NextTasks]_vars

\* the calls that do not go through the gate: tools that act at once,
\* requests agent_chat serves itself, and proposals that are refused
NextDirect ==
    \/ \E msg \in Requests : AgentChat(msg)
    \/ \E path \in {"f", "x"}, content \in NewContents :
          EditOrCreateFile(path, content)
    \/ \E cmd \in Cmds : RunShell(cmd)
    \/ RunPipInstall("")
    \/ GitHubClone("x")
    \/ GitHubPush("x")
    \/ \E method \in {"GET", "POST"} : APICall(method, "")
    \/ \E target \in {"", "g"} : CodeGenerateDocs(target)
    \/ RestoreListFileBackups("g")
    \/ \E valid \in BOOLEAN, out \in RunOutcomes, rm \in RemoveOutcomes :
          ExecPythonCode(valid, out, rm)
    \/ \E out \in RunOutcomes, rm \in RemoveOutcomes : ExecNodeCode(out, rm)
    \/ \E idx \in 0..1, out \in Outcomes : RestoreFileBackup("f", idx, out)
    \/ \E out \in Outcomes : CodeSearchRipgrep(out)
    \/ \E msg \in ReplyMsgs : Resolve("file_change", msg)

SpecDirect == Init /\ [][NextDirect]_vars

\* content proposed for a file, the content the files start with included
FileContents == {"c0", "c1"}

\* the user's messages while file actions are proposed and resolved
FileMsgs == { <<"12345">>, <<"yes">>, <<"no">> }

\* file edits and UI file writes alone; edit_or_create_file takes any path
\* under the home directory, the files of the UI sandbox included
NextFiles ==
    \/ \E msg \in FileMsgs : AgentChat(msg)
    \/ \E path \in {"f", "g", "i"}, content \in FileContents :
          EditOrCreateFile(path, content)
    \/ \E content \in FileContents : WriteUIFile("i", content)
    \/ \E k \in {"file_change", "ui_file"}, msg \in { <<"yes">>, <<"no">> } :
          Resolve(k, msg)

SpecFiles == Init /\ [][NextFiles]_vars

(***************************************************************************)
(* The vault functions called on their own, and the specification of the   *)
(* vault: it starts before the first secret is stored, with no vault file. *)
(***************************************************************************)
Pins == {"12345", "54321"}

NewPins == Pins \cup {"1234", "abcde"}

SecretValues == {"", "v1", "v2"}

Versions == (0 - 1)..2

\* the messages of the secret-storage workflow: the PIN, the request, the
\* confirmation and the pasted value
VaultMsgs ==
    { <<"54321">>, <<"store", "my", "github", "pat">>, <<"yes">>, <<"v1">> }

\* a call of a vault function outside agent_chat
\* saved: the call reached save_vault; out: how its write ended
CallVault(call, res, saved, out) ==
    /\ WithinBound(res.vault)
    /\ ~saved => out = "ok"
    /\ vault_file' = IF saved THEN written(vault_file, res.vault, out) ELSE res.vault
    /\ last' = [Blank EXCEPT !.op = "vault", !.ret = res.ret, !.raised = res.raised,
                             !.vault = call,
                             !.save = IF saved THEN out ELSE "none"]
    /\ UNCHANGED <<session_unlocked, session_pin, secret_flow, global_approval,
                   pending, fs, backups, temps, nprop, aside>>

SetSecret(name, value, pin, out) ==
    \E res \in {set_secret(vault_file, name, value, pin)} :
        CallVault(VaultCall("set_secret", name, value, pin, 0, FALSE, vault_file, res),
                  res, name # "" /\ value # "", out)

RestoreSecret(name, pin, version, out) ==
    \E res \in {restore_secret(vault_file, name, pin, version)} :
        CallVault(VaultCall("restore_secret", name, "", pin, version, FALSE,
                            vault_file, res), res, res.ret = "True", out)

DeleteSecret(name, pin, erase_archive, out) ==
    \E res \in {delete_secret(vault_file, name, pin, erase_archive)} :
        CallVault(VaultCall("delete_secret", name, "", pin, 0, erase_archive,
                            vault_file, res), res, res.ret = "True", out)

\* VaultCall.pin is old_pin and VaultCall.value is new_pin
ChangePin(old_pin, new_pin, out) ==
    \E res \in {change_pin(vault_file, old_pin, new_pin)} :
        CallVault(VaultCall("change_pin", "", new_pin, old_pin, 0, FALSE,
                            vault_file, res), res, res.ret = "True", out)

InitVault ==
    /\ session_unlocked = FALSE
    /\ session_pin = "none"
    /\ vault_file = NoVault
    /\ secret_flow = NoFlow
    /\ global_approval = FALSE
    /\ pending = [k \in Kinds |-> NoPending]
    /\ fs = [p \in PathNames |->
                IF p \in {"f", "i", "x"} THEN "c0" ELSE "absent"]
    /\ backups = [p \in PathNames |-> <<>>]
    /\ temps = {}
    /\ nprop = 0
    /\ InitAside
    /\ last = Blank

\* the vault functions, on the secrets "A" and "B", every write of save_vault
\* succeeding
NextVault ==
    \/ \E name \in {"A", ""}, value \in SecretValues, pin \in Pins :
          SetSecret(name, value, pin, "ok")
    \/ \E pin \in Pins : SetSecret("B", "v1", pin, "ok")
    \/ \E name \in {"A", "B"}, pin \in Pins, version \in Versions :
          RestoreSecret(name, pin, version, "ok")
    \/ \E name \in {"A", "B"}, pin \in Pins, erase_archive \in BOOLEAN :
          DeleteSecret(name, pin, erase_archive, "ok")
    \/ \E old_pin \in Pins, new_pin \in NewPins : ChangePin(old_pin, new_pin, "ok")

SpecVault == InitVault /\ [][NextVault]_vars

NextVaultLog ==
    \/ \E name \in {"A", ""}, value \in {"", "v1"}, pin \in Pins :
          \E res \in {set_secret(vault_file, name, value, pin)} :
             LoggedVaultCall(VaultCall("set_secret", name, value, pin, 0, FALSE,
                                       vault_file, res), res)
    \/ \E pin \in Pins :
          \E res \in {get_secret(vault_file, "A", pin, FALSE, 0)} :
             LoggedVaultCall(VaultCall("get_secret", "A", "", pin, 0, FALSE,
                                       vault_file, res), res)
    \/ \E pin \in Pins :
          \E res \in {restore_secret(vault_file, "A", pin, 0)} :
             LoggedVaultCall(VaultCall("restore_secret", "A", "", pin, 0, FALSE,
                                       vault_file, res), res)
    \/ \E pin \in Pins, erase_archive \in BOOLEAN :
          \E res \in {delete_secret(vault_file, "A", pin, erase_archive)} :
             LoggedVaultCall(VaultCall("delete_secret", "A", "", pin, 0,
                                       erase_archive, vault_file, res), res)
    \/ \E old_pin \in Pins, new_pin \in {"54321", "1234"} :
          \E res \in {change_pin(vault_file, old_pin, new_pin)} :
             LoggedVaultCall(VaultCall("change_pin", "", new_pin, old_pin, 0, FALSE,
                                       vault_file, res), res)

SpecVaultLog == InitVault /\ [][NextVaultLog]_vars

\* what the user types at the locked session and after it
LockMsgs ==
    { <<"12345">>, <<"54321">>, <<"pin:", "54321">>, <<"1234">>,
      <<"yes">>, <<"trust", "session">>, <<"view", "file", "f">> }

\* a session whose vault and task queue are filled before and after it is
\* unlocked
NextLocked ==
    \/ \E msg \in LockMsgs : AgentChat(msg)
    \/ SetSecret("A", "v1", "12345", "ok")
    \/ AddTask([name |-> "f", kind |-> "fn"], {}, 1)
    \/ RunShell(<<"curl", "x">>)

SpecLocked == InitVault /\ [][NextLocked]_vars

\* several kinds of action pending at once, and the replies to them
NextDispatch ==
    \/ \E msg \in { <<"12345">>, <<"yes">>, <<"no">>, <<"trust", "session">> } :
          AgentChat(msg)
    \/ EditOrCreateFile("f", "c1")
    \/ RunShell(<<"curl", "x">>)
    \/ GitHubPush("g")
    \/ APICall("GET", "u")
    \/ PipAudit
    \/ RestoreListFileBackups("f")

SpecDispatch == Init /\ [][NextDispatch]_vars

\* the session's workflow storing "GITHUB_PAT", beside calls of the vault
\* functions on the secret "A"
NextSecrets ==
    \/ \E msg \in VaultMsgs : AgentChat(msg)
    \/ \E pin \in Pins : SetSecret("A", "v1", pin, "ok")
    \/ \E pin \in Pins : RestoreSecret("A", pin, 0, "ok")
    \/ \E pin \in Pins : DeleteSecret("A", pin, FALSE, "ok")

SpecSecrets == InitVault /\ [][NextSecrets]_vars

(***************************************************************************)
(* with_retry called on its own, with an operation whose calls end as outs *)
(* says.                                                                   *)
(***************************************************************************)
MaxRetries == 2

AttemptOutcomes == {"ok", "CalledProcessError", "TimeoutExpired"}

WithRetry(outs, retries, delay) ==
    /\ last' = [Blank EXCEPT !.op = "with_retry",
                             !.raised = with_retry(outs, retries).raised,
                             !.log = with_retry(outs, retries).log,
                             !.retry = [outs |-> outs, retries |-> retries,
                                        delay |-> delay,
                                        slept |-> with_retry(outs, retries).sleeps * delay,
                                        did |-> with_retry(outs, retries)]]
    /\ UNCHANGED <<session_unlocked, session_pin, vault_file, secret_flow,
                   global_approval, pending, fs, backups, temps, nprop, aside>>

NextRetry ==
    \E outs \in [1..(MaxRetries + 1) -> AttemptOutcomes],
       retries \in (0 - 1)..MaxRetries, delay \in {0, 1} :
        WithRetry(outs, retries, delay)

SpecRetry == Init /\ [][NextRetry]_vars

\* the vault functions on the secret "A", the write of save_vault ending in
\* any way
NextVaultIO ==
    \/ \E value \in {"v1", "v2"}, out \in SaveOutcomes :
          SetSecret("A", value, "12345", out)
    \/ \E version \in {0, 1}, out \in SaveOutcomes :
          RestoreSecret("A", "12345", version, out)
    \/ \E erase_archive \in BOOLEAN, out \in SaveOutcomes :
          DeleteSecret("A", "12345", erase_archive, out)
    \/ \E old_pin \in Pins, new_pin \in Pins, out \in SaveOutcomes :
          ChangePin(old_pin, new_pin, out)

SpecVaultIO == InitVault /\ [][NextVaultIO]_vars

(***************************************************************************)
(* Properties                                                              *)
(***************************************************************************)
\* the kinds whose action waits in a slot for the user's reply
SlotKinds ==
    { "file_change", "ui_file", "shell_cmd", "pip_install", "npm_install",
      "github_clone", "github_push", "api_call", "doc_gen", "pip_audit" }

\* a call of a resolve handler: on its own, from handle_pending_all, or as
\* the tool DocstringCoverage
ResolveOps == {"resolve", "chat", "tool"}

\* the lower-cased command contains a denylisted substring
Denylisted(cmd) ==
    \E bad \in { <<"rm", "-rf">>, <<"del", "/f">>, <<"shutdown">>, <<"format">>,
                 <<"dd">>, <<"mkfs">>, <<"poweroff">> } :
        Contains(Lower(cmd), bad)

\* the lower-cased command starts with an allowlisted safe prefix
Allowlisted(cmd) ==
    \E prefix \in { <<"ls">>, <<"dir">>, <<"npm", "install">>, <<"npm", "run">>,
                    <<"npm", "build">>, <<"pip", "install">>, <<"pip", "list">>,
                    <<"python">>, <<"pytest">>, <<"make">>, <<"echo">>,
                    <<"pip", "freeze">>, <<"npm", "start">>, <<"node">>,
                    <<"which">>, <<"where">> } :
        StartsWith(Lower(cmd), prefix)

\* C1: the side effect of a slot-based kind is performed only by a resolve
\* call that finds a pending action of the kind in the slot, put there by an
\* earlier propose, and only when the message is affirmative or
\* global_approval is true; the only operation of such a kind that a propose
\* call starts itself is an allowlisted shell command.
C1_SideEffectOnlyWhenApproved ==
    /\ (last.ran /\ last.kind \in SlotKinds /\ ~last.direct) =>
          /\ last.op \in ResolveOps
          /\ last.found # NoPending
          /\ last.found = last.before
          /\ nprop > 0
          /\ (last.affirmative \/ last.ga)
    /\ (last.direct /\ last.kind \in SlotKinds) =>
          /\ last.kind = "shell_cmd"
          /\ Allowlisted(last.cmd)
    /\ \A k \in Kinds : pending[k] # NoPending => nprop > 0

\* C1 witness: an affirmative message, with global_approval false, has made
\* handle_pending_all run the pending shell command
C1_Witness ==
    /\ last.op = "chat"
    /\ last.kind = "shell_cmd"
    /\ last.ran
    /\ last.affirmative
    /\ ~last.ga

\* C2 (as claimed): the only call that starts an operation in the call that
\* receives the request is run_shell_command with an allowlisted command;
\* every other handler acts only in a resolve call.
C2_OnlySafeShellRunsAtOnce ==
    last.direct => (last.kind = "shell_cmd" /\ Allowlisted(last.cmd))

\* C3 (as claimed): with global_approval false, a propose followed at once
\* by a resolve with a non-affirmative message leaves no pending action of
\* the kind and leaves files, backups and staged temporary files exactly as
\* they were before the propose.
C3_DenialLeavesNoTrace ==
    (last.op = "resolve" /\ last.follows /\ ~last.ga /\ ~last.affirmative) =>
        /\ pending[last.kind] = NoPending
        /\ Snapshot = last.snap

\* C4 (as claimed): in an unlocked session with global_approval false, a
\* message that is not affirmative and that agent_chat hands to
\* handle_pending_all removes every action that was pending, and executes
\* none.
C4_DenialClearsEveryPending ==
    (last.op = "chat" /\ last.route \in {"pending", "passed on"} /\ ~last.ga
        /\ ~last.affirmative) =>
        /\ \A k \in last.was : pending[k] = NoPending
        /\ ~last.ran

\* C5 (as claimed): with global_approval true, a resolve call that finds a
\* pending action executes it and removes it, whatever the message.
C5_GlobalApprovalExecutes ==
    (last.op \in {"resolve", "chat"} /\ last.found # NoPending /\ last.ga) =>
        /\ last.ran
        /\ pending[last.kind] = NoPending

\* C6: a propose puts its payload into the slot of its kind in place of
\* whatever was pending; the approving resolve that follows it executes that
\* payload and no other, touches no file but the one the payload names, and
\* empties the slot; a resolve that finds the slot empty does nothing.
C6_LatestProposalWins ==
    /\ (last.op = "propose" /\ last.stored # NoPending) =>
          pending[last.kind] = last.stored
    /\ (last.op = "resolve" /\ last.follows /\ last.ran) =>
          /\ last.found = last.asked
          /\ (last.over # last.asked => last.found # last.over)
          /\ pending[last.kind] = NoPending
          /\ last.kind \in {"file_change", "ui_file"} =>
                \A q \in PathNames \ {last.found.abs_path} : fs[q] = last.snap.fs[q]
    /\ (last.op = "resolve" /\ last.before = NoPending) =>
          /\ ~last.ran
          /\ last.ret = "None"
          /\ last.log = <<>>

\* C6 witness: a second proposal replaced a different pending one of its
\* kind, and the approval that followed executed it
C6_Witness ==
    /\ last.op = "resolve"
    /\ last.follows
    /\ last.ran
    /\ last.over # NoPending
    /\ last.over # last.asked
    /\ last.kind = "shell_cmd"

\* C7 (as claimed): a resolve handler called while nothing of its kind is
\* pending returns None without raising, also when handle_pending_all calls
\* it.
C7_NoPendingNoError ==
    /\ (last.op = "resolve" /\ last.before = NoPending) => last.ret = "None"
    /\ last.op = "chat" => \A k \in last.errors : k \in last.was

\* the texts a handler returns for an operation that raised
ErrorTexts ==
    { "Error editing/creating file", "Error writing UI file",
      "Shell command error", "pip install error", "npm install error",
      "Clone error", "Git push done. Log: Error running git", "API call error",
      "Docstring generation error", "pip-audit error",
      "Error creating installer script", "Installer run error",
      "ripgrep search error", "Restore error" }

\* the events that record a failure
FailureEvents ==
    { "write_file_fail", "ui_file_write_fail", "run_shell_fail",
      "pip_install_fail", "npm_install_fail", "github_clone_error",
      "github_push_error", "task_failed", "api_error", "doc_gen_error",
      "pip_audit_fail", "universal_installer_error", "run_installer_error",
      "code_search_error", "restore_error" }

\* C8: when the operation of an approved action raises, the resolve handler
\* returns an error text instead of raising, logs a failure event, and the
\* pending action of the kind is gone.  (An approved git push reports the
\* error of a subcommand inside its log text; the failure event is the
\* task_failed of the retry helper.)
C8_ExecuteErrorIsReported ==
    (last.op \in ResolveOps /\ last.ran /\ last.raised) =>
        /\ last.ret \in ErrorTexts
        /\ \E i \in 1..Len(last.log) : last.log[i] \in FailureEvents
        /\ pending[last.kind] = NoPending

\* C8 witness: an approved HTTP call raised inside handle_pending_all
C8_Witness ==
    /\ last.op = "chat"
    /\ last.kind = "api_call"
    /\ last.ran
    /\ last.raised

\* C9: run_shell_command with a denylisted command returns the blocked
\* result, starts nothing and leaves the pending shell action as it was,
\* whatever global_approval is and whatever the command starts with; the
\* pending shell action is never a denylisted command and
\* handle_pending_shell_cmd never runs one.
C9_DenylistedIsBlocked ==
    /\ (last.op = "propose" /\ last.kind = "shell_cmd" /\ Denylisted(last.cmd)) =>
          /\ last.ret = "[BLOCKED]"
          /\ ~last.ran
          /\ ~last.direct
          /\ last.stored = NoPending
          /\ pending["shell_cmd"] = last.before
    /\ pending["shell_cmd"] # NoPending => ~Denylisted(pending["shell_cmd"].cmd)
    /\ (last.ran /\ last.kind = "shell_cmd" /\ last.found # NoPending) =>
          ~Denylisted(last.found.cmd)

\* C9 witness: with global_approval true and a shell action pending, a
\* denylisted command that starts with a safe prefix was blocked
C9_Witness ==
    /\ last.op = "propose"
    /\ last.ret = "[BLOCKED]"
    /\ Allowlisted(last.cmd)
    /\ last.ga
    /\ last.before # NoPending

\* C10: run_shell_command with a command that is not denylisted runs it in
\* the same call when it starts with a safe prefix, leaving the pending
\* shell action as it was; otherwise it stores the command as the pending
\* shell action and runs nothing.
C10_SafeRunsOthersWait ==
    (last.op = "propose" /\ last.kind = "shell_cmd" /\ ~Denylisted(last.cmd)) =>
        IF Allowlisted(last.cmd)
        THEN /\ last.direct
             /\ last.ran
             /\ last.stored = NoPending
             /\ pending["shell_cmd"] = last.before
        ELSE /\ ~last.ran
             /\ ~last.direct
             /\ last.stored = [cmd |-> last.cmd]
             /\ pending["shell_cmd"] = [cmd |-> last.cmd]

\* C10 witness: a safe command ran at once while another shell command was
\* pending
C10_Witness ==
    /\ last.op = "propose"
    /\ last.kind = "shell_cmd"
    /\ last.direct
    /\ last.before # NoPending

\* the kinds that write a file the user named
FileKinds == {"file_change", "ui_file"}

\* C11 (as claimed): when an approved file edit or UI file write has
\* overwritten a target that existed at the moment of the write, a backup of
\* the target holds exactly the content that was overwritten.
C11_BackupHoldsOverwritten ==
    (last.op \in ResolveOps /\ last.kind \in FileKinds /\ last.ran
        /\ ~last.raised /\ last.prev # "absent") =>
        \E i \in 1..Len(backups[last.found.abs_path]) :
            backups[last.found.abs_path][i] = last.prev

\* C12 (as claimed): the staged temporary files on disk are exactly the
\* temp_path of the file-edit and UI-file actions that are pending now; none
\* is left when neither is pending.
PendingTemps ==
    { pending[k].temp_path : k \in { j \in FileKinds : pending[j] # NoPending } }

C12_TempsAreThoseOfPending == temps = PendingTemps

\* the prompt of edit_or_create_file that carries a diff preview
DiffPrompt == "Diff preview: Is that OK?"

\* the effect of a file edit proposed and then approved, the write having
\* succeeded: the target holds the proposed content; a path that did not exist
\* got no backup, a path that existed got exactly one, holding the content it
\* had
ProposedThenWritten ==
    (last.op \in ResolveOps /\ last.kind = "file_change" /\ last.follows
        /\ last.ran /\ ~last.raised) =>
        LET p == last.asked.abs_path
        IN  /\ fs[p] = last.asked.content
            /\ IF Exists(last.snap.fs, p)
               THEN backups = [last.snap.backups EXCEPT
                                  ![p] = Append(@, last.snap.fs[p])]
               ELSE backups = last.snap.backups

C14_TargetOldOrNew ==
    (last.op \in ResolveOps /\ last.kind \in FileKinds /\ last.ran) =>
        fs[last.found.abs_path] \in {last.prev, last.found.content}

\* the vault functions that take the PIN of the caller
PinOps == {"set_secret", "restore_secret", "delete_secret", "workflow"}

\* the latest call was a vault function given a PIN that does not decrypt the
\* vault file that existed
WrongPinCall ==
    /\ last.vault # NoCall
    /\ last.vault.fn \in PinOps
    /\ last.vault.before # NoVault
    /\ last.vault.before.pin # last.vault.pin

\* C15 (as claimed): a vault operation (set_secret, restore_secret,
\* delete_secret or the session's secret-storage workflow) given a PIN that
\* does not decrypt the existing vault file does not modify the vault: every
\* secret stored under the correct PIN is still retrievable with that PIN.
C15_WrongPinKeepsVault ==
    WrongPinCall =>
        \A n \in SecretNames :
            get_secret(vault_file, n, last.vault.before.pin, FALSE, 0).ret
                = get_secret(last.vault.before, n, last.vault.before.pin, FALSE, 0).ret

\* the PIN of the latest vault call decrypts the vault file it found
RightPinCall ==
    /\ last.vault # NoCall
    /\ IF last.vault.before = NoVault THEN TRUE
       ELSE last.vault.before.pin = last.vault.pin

\* the entry of the called name before the latest vault call
EntryBefore == load_vault_or_empty(last.vault.before, last.vault.pin)[last.vault.name]

\* C16: set_secret(name, v, pin) with a non-empty name and value and the
\* correct PIN, on an entry with current value c and archive A, yields
\* current = v and archive = c followed by all of A in order; get_secret then
\* returns v, and get_secret(archived, version 0) returns c.
C16_SetSecretArchivesCurrent ==
    (RightPinCall /\ last.vault.fn = "set_secret"
        /\ last.vault.name # "" /\ last.vault.value # "") =>
        LET name == last.vault.name
            pin == last.vault.pin
            new == vault_file.secrets[name]
        IN  /\ new # NoEntry
            /\ new.current = last.vault.value
            /\ get_secret(vault_file, name, pin, FALSE, 0).ret = last.vault.value
            /\ IF EntryBefore = NoEntry THEN new.archive = <<>>
               ELSE /\ new.archive = <<EntryBefore.current>> \o EntryBefore.archive
                    /\ get_secret(vault_file, name, pin, TRUE, 0).ret
                          = EntryBefore.current

\* C16 witness: set_secret replaced a value by a different one on an entry
\* that already had an archive
C16_Witness ==
    /\ RightPinCall
    /\ last.vault.fn = "set_secret"
    /\ last.vault.name = "A"
    /\ last.vault.value # ""
    /\ EntryBefore # NoEntry
    /\ EntryBefore.archive # <<>>
    /\ EntryBefore.current # last.vault.value
    /\ EntryBefore.archive[1] # EntryBefore.current

\* the values an entry holds in current and archive, with their numbers
ValueBag(entry) ==
    [v \in SecretValues |->
        Cardinality({ i \in 1..Len(entry.archive) : entry.archive[i] = v })
            + (IF entry.current = v THEN 1 ELSE 0)]

\* C17: restore_secret(name, pin, version) with 0 <= version < length of the
\* archive sets current to archive[version], removes that element and inserts
\* the previous current at position 0 of the archive; the archive length and
\* the multiset of values in current and archive are unchanged.
C17_RestoreSwaps ==
    (RightPinCall /\ last.vault.fn = "restore_secret"
        /\ EntryBefore # NoEntry
        /\ last.vault.version >= 0
        /\ last.vault.version < Len(EntryBefore.archive)) =>
        LET old == EntryBefore
            new == vault_file.secrets[last.vault.name]
            v == last.vault.version + 1
        IN  /\ last.vault.ret = "True"
            /\ Len(new.archive) = Len(old.archive)
            /\ new.current = old.archive[v]
            /\ new.archive[1] = old.current
            /\ \A j \in 1..Len(old.archive) :
                  j # v => new.archive[IF j < v THEN j + 1 ELSE j] = old.archive[j]
            /\ ValueBag(new) = ValueBag(old)

\* C17 witness: version 1 of an archive of two different values, the second
\* different from the current value, was restored
C17_Witness ==
    /\ RightPinCall
    /\ last.vault.fn = "restore_secret"
    /\ last.vault.ret = "True"
    /\ last.vault.version = 1
    /\ EntryBefore # NoEntry
    /\ Len(EntryBefore.archive) = 2
    /\ EntryBefore.archive[2] # EntryBefore.current
    /\ EntryBefore.archive[1] # EntryBefore.archive[2]

\* the latest restore_secret named no entry of the vault, or a version that
\* is not an index 0 .. length - 1 of the entry's archive
RestoreOutOfRange ==
    IF EntryBefore = NoEntry THEN TRUE
    ELSE last.vault.version < 0 \/ last.vault.version >= Len(EntryBefore.archive)

\* C18 (as claimed): restore_secret for a name that is not in the vault, or
\* with a version outside 0 .. length of the archive - 1, negative versions
\* included, returns failure and leaves the vault unchanged.
C18_RestoreRejectsOutOfRange ==
    (last.vault # NoCall /\ last.vault.fn = "restore_secret" /\ RestoreOutOfRange) =>
        /\ last.vault.ret = "False"
        /\ ~last.vault.raised
        /\ vault_file = last.vault.before

\* C19: delete_secret(name, pin) without erase_archive keeps the entry with
\* its current value and archive and sets its deleted flag; with erase_archive
\* it removes the entry; every other entry of the vault is unchanged; for a
\* name that is not in the vault it returns False and changes nothing.
C19_DeleteTombstonesOrErases ==
    (RightPinCall /\ last.vault.fn = "delete_secret") =>
        LET old == load_vault_or_empty(last.vault.before, last.vault.pin)
            name == last.vault.name
        IN  IF old[name] = NoEntry
            THEN /\ last.vault.ret = "False"
                 /\ vault_file = last.vault.before
            ELSE /\ last.vault.ret = "True"
                 /\ vault_file.pin = last.vault.pin
                 /\ IF last.vault.erase
                    THEN vault_file.secrets[name] = NoEntry
                    ELSE vault_file.secrets[name] =
                            [current |-> old[name].current,
                             archive |-> old[name].archive, deleted |-> TRUE]
                 /\ \A m \in SecretNames \ {name} : vault_file.secrets[m] = old[m]

\* C19 witness: an entry with an archive was deleted without erase_archive
\* while the vault held another entry
C19_Witness ==
    /\ RightPinCall
    /\ last.vault.fn = "delete_secret"
    /\ last.vault.name = "A"
    /\ ~last.vault.erase
    /\ last.vault.ret = "True"
    /\ EntryBefore.archive # <<>>
    /\ ~EntryBefore.deleted
    /\ vault_file.secrets["B"] # NoEntry

\* the latest change_pin was given a new PIN that is not 5 to 6 digits, or an
\* old PIN that does not decrypt the vault file that existed
ChangePinRejects ==
    \/ DigitsLen(last.vault.value) < 5
    \/ DigitsLen(last.vault.value) > 6
    \/ load_vault(last.vault.before, last.vault.pin) = NoneValue

\* what both statements of C20 share: a rejected change_pin returns False and
\* leaves the vault file unchanged; any other succeeds, and load_vault(new)
\* then returns the mapping load_vault(old) returned before the call
ChangePinReencrypts ==
    (last.vault # NoCall /\ last.vault.fn = "change_pin") =>
        IF ChangePinRejects
        THEN /\ last.vault.ret = "False"
             /\ vault_file = last.vault.before
        ELSE /\ last.vault.ret = "True"
             /\ load_vault(vault_file, last.vault.value)
                   = load_vault(last.vault.before, last.vault.pin)

\* C20 (as claimed): change_pin(old, new) fails and leaves the vault file
\* unchanged when new is not 5 to 6 digits or old does not decrypt the vault;
\* when it succeeds, load_vault(new) returns the mapping load_vault(old)
\* returned before, and old no longer decrypts the vault.
C20_AsClaimed ==
    /\ ChangePinReencrypts
    /\ (last.vault # NoCall /\ last.vault.fn = "change_pin"
            /\ last.vault.ret = "True") =>
          load_vault(vault_file, last.vault.pin) = NoneValue

\* C20 (amended): as claimed, but old no longer decrypts the vault only when
\* new differs from old; change_pin(p, p) succeeds and p still decrypts.
C20_ChangePinReencrypts ==
    /\ ChangePinReencrypts
    /\ (last.vault # NoCall /\ last.vault.fn = "change_pin"
            /\ last.vault.ret = "True") =>
          (load_vault(vault_file, last.vault.pin) = NoneValue
              <=> last.vault.value # last.vault.pin)

\* C20 witness: the PIN of a vault that holds a secret was changed to a
\* different one
C20_Witness ==
    /\ last.vault # NoCall
    /\ last.vault.fn = "change_pin"
    /\ last.vault.ret = "True"
    /\ last.vault.value # last.vault.pin
    /\ last.vault.before # NoVault
    /\ last.vault.before.secrets["A"] # NoEntry

\* the mapping the vault file holds ({} before the first save)
StoredSecrets == IF vault_file = NoVault THEN EmptyVault ELSE vault_file.secrets

ReportingOps == {"restore_secret", "delete_secret", "change_pin"}

\* C22 (as claimed): when persisting the vault fails, the operation that
\* triggered the write reports failure and the vault file still holds the
\* complete previous ciphertext; an operation reports success only if the new
\* vault content has been persisted.
C22_FailedSaveIsReported ==
    (last.vault # NoCall /\ last.save \in {"fail", "partial"}) =>
        /\ vault_file = last.vault.before
        /\ last.vault.fn \in ReportingOps => last.vault.ret = "False"

\* the calls of the operation that with_retry can make: 1 .. retries + 1
Attempts == 1..(last.retry.retries + 1)

\* the first call that does not raise (0: they all raise)
FirstOk ==
    IF \E i \in Attempts : last.retry.outs[i] = "ok"
    THEN CHOOSE i \in Attempts :
            /\ last.retry.outs[i] = "ok"
            /\ \A j \in 1..(i - 1) : last.retry.outs[j] # "ok"
    ELSE 0

\* the number of events e in the log of the latest call
CountEvent(e) == Cardinality({ i \in 1..Len(last.log) : last.log[i] = e })

\* what with_retry does when retries >= 0
RetryContract ==
    LET did == last.retry.did
        retries == last.retry.retries
    IN  /\ did.calls >= 1
        /\ did.calls <= retries + 1
        /\ last.retry.slept = (did.calls - 1) * last.retry.delay
        /\ IF FirstOk # 0
           THEN /\ did.calls = FirstOk
                /\ did.result = FirstOk
                /\ ~did.raised
                /\ CountEvent("task_failed") = 0
           ELSE /\ did.calls = retries + 1
                /\ did.raised
                /\ did.error = last.retry.outs[retries + 1]
                /\ did.result = 0
                /\ CountEvent("task_failed") = 1
        /\ CountEvent("task_retry_error") = did.calls - (IF FirstOk # 0 THEN 1 ELSE 0)

\* C25 (as claimed): with_retry(operation, retries, delay) calls operation at
\* least once and at most retries + 1 times, returns the result of the first
\* call that does not raise without calling it again, sleeps delay only
\* between two attempts, and when all retries + 1 calls raise it logs exactly
\* one terminal failure event and re-raises the last exception.
C25_AsClaimed == last.retry # NoCall => RetryContract

\* C25 (amended): as claimed for retries >= 0; for a negative retries the
\* operation is never called, nothing is logged and with_retry returns None.
C25_RetryBounded ==
    last.retry # NoCall =>
        IF last.retry.retries >= 0 THEN RetryContract
        ELSE /\ last.retry.did.calls = 0
             /\ ~last.retry.did.raised
             /\ last.retry.did.result = 0
             /\ last.retry.slept = 0
             /\ last.log = <<>>

\* C25 witness: the first two calls raised and the third returned
C25_Witness ==
    /\ last.retry # NoCall
    /\ last.retry.retries = 2
    /\ last.retry.delay = 1
    /\ last.retry.outs[1] # "ok"
    /\ last.retry.outs[2] # "ok"
    /\ last.retry.outs[3] = "ok"
    /\ last.retry.did.calls = 3
    /\ last.retry.slept = 2

\* ---------------------------------------------------------------------
\* C26
\* ---------------------------------------------------------------------

\* the latest call was a code runner that went past validation
ScriptRun ==
    /\ last.op = "tool"
    /\ last.kind \in {"exec_python", "exec_node"}
    /\ last.script # NoCall
    /\ last.script.valid

\* the latest call was Python refused by the syntax check
ScriptRefused ==
    /\ last.op = "tool"
    /\ last.kind = "exec_python"
    /\ last.script # NoCall
    /\ ~last.script.valid

\* C26 as the specification states it: after exec_python_code or
\* exec_node_code returns, the script of the call no longer exists, whatever
\* the run did.
C26_AsClaimed ==
    ScriptRun => last.script.path \notin scripts

\* C26: after exec_python_code or exec_node_code returns, the script of the
\* call was written and either no longer exists or its removal failed and a
\* tempfile_remove_fail event was logged, whether the run succeeded, timed
\* out or raised; Python that fails the syntax check is refused with no
\* script written, no process started and no script left behind by the call.
C26_ScriptRemovedOrLogged ==
    /\ ScriptRun =>
          /\ last.script.path \in last.script.written
          /\ last.ran
          /\ IF last.script.rm = "ok"
             THEN /\ last.script.path \notin scripts
                  /\ last.log = RunLog(last.kind, last.script.out)
             ELSE last.log = RunLog(last.kind, last.script.out)
                             \o <<"tempfile_remove_fail">>
    /\ ScriptRefused =>
          /\ ~last.ran
          /\ last.script.written = scripts
          /\ last.ret = "Refused to execute Python"
          /\ last.log = <<"exec_python_syntax_error">>

\* a run that timed out and whose script is gone
C26_Witness ==
    /\ ScriptRun
    /\ last.script.out = "timeout"
    /\ last.script.rm = "ok"
    /\ last.script.path \notin scripts

\* ---------------------------------------------------------------------
\* C23, C24
\* ---------------------------------------------------------------------

\* the priority number a task was added with
PriorityNumber(task) == 0 - task.priority

\* the latest call was next_task on a queue that held tasks, and it returned
TookTask ==
    /\ last.op = "next_task"
    /\ last.task.before # <<>>
    /\ ~last.task.res.raised

\* C23: next_task removes and returns a task with the lowest priority number
\* among the queued tasks, and none when the queue is empty.
C23_NextTaskLowestFirst ==
    /\ TookTask =>
          /\ Len(queue) = Len(last.task.before) - 1
          /\ \A i \in 1..Len(last.task.before) :
                PriorityNumber(last.task.res.task)
                    <= PriorityNumber(last.task.before[i][2])
    /\ (last.op = "next_task" /\ last.task.before = <<>>) =>
          last.task.res.task = NoTask

\* C24: add_task succeeds for any sequence of tasks, tasks of the same
\* priority included, and leaves the task in the queue; has_tasks is true
\* exactly while some task is queued.
C24_AddTaskSucceeds ==
    (last.op = "add_task" /\ last.task.res.task.action.kind = "str") =>
        /\ ~last.task.res.raised
        /\ Len(queue) = Len(last.task.before) + 1
        /\ has_tasks(queue)

\* ---------------------------------------------------------------------
\* C30
\* ---------------------------------------------------------------------

\* the latest turn reached the loop over the task queue
Drained ==
    /\ last.op = "chat"
    /\ last.route = "passed on"
    /\ last.task # NoCall
    /\ last.task.fn = "drain"

\* C30: a turn that reaches the drain step pops and runs every queued task, a
\* task whose action raises is logged and does not stop the loop, and the
\* loop ends with the queue empty before the message is passed on.
C30_DrainEmptiesQueue ==
    Drained =>
        /\ ~last.task.res.raised
        /\ queue = <<>>
        /\ Len(last.task.res.popped) = Len(last.task.before)
        /\ Len(last.task.res.ran) + Len(last.task.res.failed)
               = Len(last.task.before)

\* ---------------------------------------------------------------------
\* C27
\* ---------------------------------------------------------------------

\* w is v with every string replaced by the placeholder, dicts and lists
\* kept in shape and masked inside, and anything else replaced by null
MaskedAs(value, out) ==
    LET RECURSIVE as(_)
        as(p) ==
            IF p.v.t = "str" THEN p.w = Str("[MASKED]")
            ELSE IF p.v.t \in {"dict", "list"}
            THEN /\ p.w.t = p.v.t
                 /\ p.w.keys = p.v.keys
                 /\ Len(p.w.items) = Len(p.v.items)
                 /\ \A i \in 1..Len(p.v.items) :
                       as([v |-> p.v.items[i], w |-> p.w.items[i]])
            ELSE p.w = None
    IN as([v |-> value, w |-> out])

C28_AppendExcluded ==
    \A t, u \in Threads : (FileOpen(t) /\ FileOpen(u)) => t = u

\* ---------------------------------------------------------------------
\* C29
\* ---------------------------------------------------------------------

\* the pending actions the latest call removed
Removed == { k \in Kinds : k \in last.was /\ pending[k] = NoPending }

\* the events of the latest call other than the dispatcher's handler_error
OutcomeEvents ==
    { last.log[i] : i \in { j \in 1..Len(last.log) : last.log[j] # "handler_error" } }

\* C29: every call that removes a pending action appends at least one event
\* that records the outcome of the resolution.
C29_ResolutionIsLogged ==
    Removed # {} => OutcomeEvents # {}

\* ---------------------------------------------------------------------
\* C31
\* ---------------------------------------------------------------------

\* the latest call was handle_pending_github_push, approved
PushApproved ==
    /\ last.op = "resolve"
    /\ last.kind = "github_push"
    /\ last.detail # NoCall
    /\ last.aff

\* how often a subcommand was run
RunsOf(cmd) ==
    Cardinality({ i \in 1..Len(last.detail.runs) : last.detail.runs[i] = cmd })

\* the commit returned, or raised, with "nothing to commit"
NothingToCommit ==
    \/ \E i \in 1..(DefaultRetries + 1) :
          /\ last.detail.outs[2][i] = "nothing"
          /\ \A j \in 1..(i - 1) : GitRaises(last.detail.outs[2][j])
    \/ \A i \in 1..(DefaultRetries + 1) : last.detail.outs[2][i] = "RaisesNothing"

\* C31: an approved push runs stage, commit and push in that order, each at
\* least once and at most retries + 1 times; a commit with nothing to commit
\* is recorded in the output, the push still runs, and the handler returns
\* its normal result and logs github_push.
C31_PushRunsInOrder ==
    PushApproved =>
        /\ \A cmd \in {"add", "commit", "push"} :
              RunsOf(cmd) >= 1 /\ RunsOf(cmd) <= DefaultRetries + 1
        /\ \A i, j \in 1..Len(last.detail.runs) :
              (i < j /\ last.detail.runs[i] = "commit") => last.detail.runs[j] # "add"
        /\ \A i, j \in 1..Len(last.detail.runs) :
              (i < j /\ last.detail.runs[i] = "push") => last.detail.runs[j] = "push"
        /\ Len(last.detail.outputs) = 3
        /\ NothingToCommit =>
              last.detail.outputs[2] \in {"nothing to commit", "Nothing to commit."}
        /\ last.ret = "Git push done. Log"
        /\ last.log[Len(last.log)] = "github_push"
        /\ pending["github_push"] = NoPending

\* the commit had nothing to commit and the push ran after it
C31_Witness ==
    /\ PushApproved
    /\ NothingToCommit
    /\ last.detail.outs[2][1] = "nothing"
    /\ last.detail.runs = <<"add", "commit", "push">>
    /\ last.ret = "Git push done. Log"

\* ---------------------------------------------------------------------
\* C32
\* ---------------------------------------------------------------------

\* the operation of the latest handler call ran into its timeout
TimedOut ==
    /\ last.op = "resolve_timeout"
    /\ last.ran

\* C32: a handler whose operation exceeds its timeout returns, logs an event
\* that is not its generic failure event, and leaves no pending action of
\* its kind and no temporary file behind.
C32_TimeoutHasItsOwnEvent ==
    TimedOut =>
        /\ pending[last.kind] = NoPending
        /\ temps = {}
        /\ \A i \in 1..Len(last.log) :
              last.log[i] # ErrorLog(last.kind)[Len(ErrorLog(last.kind))]

\* ---------------------------------------------------------------------
\* C33
\* ---------------------------------------------------------------------

\* thread t has finished a set_secret call
SetDone(t) == thread_pc[t].at = "done"

\* the name thread t set is in the vault
Kept(t) == vault_file.secrets[thread_pc[t].name] # NoEntry

\* C33: when set_secret calls under the same PIN do not overlap, the secrets
\* of all of them are in the final vault.
C33_SequentialKeepsBoth ==
    \A t, u \in Threads :
        (/\ SetDone(t) /\ SetDone(u)
         /\ thread_pc[t].name # thread_pc[u].name
         /\ ~thread_pc[t].overlapped /\ ~thread_pc[u].overlapped
         /\ \A v \in Threads : thread_pc[v].at # "save")
        => (Kept(t) /\ Kept(u))

\* two overlapping set_secret calls for different names have both finished
\* and the vault lacks one of the two secrets
C33_Witness ==
    \E t, u \in Threads :
        /\ SetDone(t) /\ SetDone(u)
        /\ thread_pc[t].name # thread_pc[u].name
        /\ thread_pc[t].overlapped /\ thread_pc[u].overlapped
        /\ \A v \in Threads \ {t, u} : thread_pc[v] = Idle
        /\ Kept(u) /\ ~Kept(t)

\* ---------------------------------------------------------------------
\* C34
\* ---------------------------------------------------------------------

\* the latest call was handle_pending_backup_restore on a pending restore
RestoreReply ==
    /\ last.op = "resolve"
    /\ last.kind = "backup_restore"
    /\ last.found # NoPending

\* the reply was the integer i
RepliedIndex(i) ==
    /\ RestoreReply
    /\ last.detail # NoCall
    /\ ParsesAsInt(last.detail.msg)
    /\ IntOf(last.detail.msg[1]) = i

\* the reply was the index i of one of the n listed backups and the copy
\* went through
RestoredIndex(i) ==
    /\ RepliedIndex(i)
    /\ last.ran /\ ~last.raised
    /\ last.ret = "Restored from backup"
    /\ i >= 0 /\ i < last.found.n

\* C34: a reply that is an index i of the n listed backups copies the i-th
\* backup, counted newest first, over the original; any other reply, and a
\* copy that fails, leaves the file as it was; the pending restore is removed
\* in every case.
C34_RestoreCopiesListed ==
    RestoreReply =>
        /\ pending["backup_restore"] = NoPending
        /\ \A i \in 0..(last.found.n - 1) :
              RepliedIndex(i) =>
                  /\ last.ran
                  /\ IF last.raised
                     THEN fs[last.found.path] = last.prev
                     ELSE /\ RestoredIndex(i)
                          /\ Len(backups[last.found.path]) = last.found.n
                          /\ fs[last.found.path]
                                = backups[last.found.path][last.found.n - i]
        /\ (\A i \in 0..(last.found.n - 1) : ~RepliedIndex(i)) =>
              /\ ~last.ran
              /\ fs[last.found.path] = last.prev
              /\ last.ret \in {"Restore cancelled.", "Invalid index.",
                                "Restore error"}

\* of three listed backups the one at index 1 was restored
C34_Witness ==
    /\ RestoredIndex(1)
    /\ last.found.n = 3
    /\ fs["f"] = "b2"
    /\ last.prev # "b2"

\* ---------------------------------------------------------------------
\* C35
\* ---------------------------------------------------------------------

\* the path a pending action of kind k targets, and the root it must lie in
TargetOf(k) ==
    CASE k = "github_clone" -> pending[k].dest_dir
      [] k = "github_push" -> pending[k].local_dir
      [] OTHER -> pending[k].abs_path

RootOf(k) == IF k = "ui_file" THEN sandbox_dir ELSE user_home

\* C35: no pending file edit, UI file write, git clone or git push targets a
\* path outside its allowed root, and no backup is made of a file outside the
\* home directory.
C35_OutsideRootIsRejected ==
    /\ \A k \in {"file_change", "ui_file", "github_clone", "github_push"} :
          pending[k] # NoPending => Inside(TargetOf(k), RootOf(k))
    /\ \A p \in PathNames : ~Inside(p, user_home) => backups[p] = <<>>

\* ---------------------------------------------------------------------
\* C36
\* ---------------------------------------------------------------------

\* the strings that are PINs given to the vault functions
PinValues == { Str(p) : p \in Pins \cup {"1234"} }

\* the logged value v holds a raw PIN, as itself or as an item of a list
HoldsPin(v) ==
    \/ v \in PinValues
    \/ \E i \in 1..Len(v.items) : v.items[i] \in PinValues

\* C36: no record of the log holds a raw PIN in any field of its data.
C36_NoRawPinLogged ==
    \A i \in 1..Len(log_file) :
        \A f \in DOMAIN log_file[i].data : ~HoldsPin(log_file[i].data[f])

\* ---------------------------------------------------------------------
\* C37
\* ---------------------------------------------------------------------

\* this step is a turn of agent_chat
ChatTurn == last'.op = "chat"

\* a turn of the locked session ran no handler, no vault function and no task
NothingRan ==
    /\ last'.route = "locked"
    /\ last'.kind = "none"
    /\ ~last'.ran
    /\ last'.vault = NoCall
    /\ last'.task = NoCall

\* C37: a turn of agent_chat in the locked session changes no pending action,
\* not the global-approval flag, the task queue, the vault, the secret
\* workflow or a file, and runs nothing; it unlocks the session only with a
\* PIN of 5 to 6 digits that load_vault accepts; an unlocked session stays
\* unlocked.
C37_LockedSessionDoesNothing ==
    [][ /\ (~session_unlocked /\ ChatTurn) =>
              /\ UNCHANGED <<pending, global_approval, queue, vault_file,
                             secret_flow, fs, backups, temps, scripts>>
              /\ NothingRan
              /\ session_unlocked' =>
                    /\ DigitsLen(session_pin') \in 5..6
                    /\ load_vault(vault_file, session_pin') # NoneValue
        /\ session_unlocked => session_unlocked' ]_vars

\* the session was unlocked by its PIN while a task was queued and the vault
\* held a secret
C37_Witness ==
    /\ session_unlocked
    /\ last.op = "chat" /\ last.route = "locked"
    /\ last.ret = "PIN accepted!"
    /\ queue # <<>>
    /\ vault_file # NoVault
    /\ session_pin = "12345"

\* ---------------------------------------------------------------------
\* C38
\* ---------------------------------------------------------------------

\* the kinds whose handler handle_pending_all can call: the others raise
\* TypeError at the call and keep their pending action
Callable == { k \in Kinds : ~NeedsGetSecret(k) }

\* the position of kind k in the handler order
OrderOf(k) == CHOOSE i \in 1..Len(HandlerOrder) : HandlerOrder[i] = k

\* this step is a turn of agent_chat that went to handle_pending_all
DispatchTurn ==
    /\ session_unlocked
    /\ last'.op = "chat"
    /\ last'.route \in {"pending", "passed on"}

WorkflowPassed ==
    /\ last.op = "chat"
    /\ last.route = "passed on"

\* C39: after a message the workflow did not answer, no confirmation prompt
\* of the workflow is still open: a non-affirmative reply to the store prompt
\* or to the overwrite prompt has cancelled it.
C39_DeclineCancelsWorkflow ==
    WorkflowPassed =>
        /\ secret_flow.awaiting_secret_name = "none"
        /\ secret_flow.awaiting_secret_overwrite = "none"

\* ---------------------------------------------------------------------
\* C40
\* ---------------------------------------------------------------------

\* the latest call approved the installer proposal and the script was written
InstallerCreated ==
    /\ last.op \in {"chat", "resolve"}
    /\ last.kind = "installer"
    /\ last.ran /\ ~last.raised
    /\ last.ret = "Universal installer created. Ready to run the installer?"

\* C40: once the installer script is written and the user is asked whether to
\* run it, an installer-run action is pending.
C40_InstallerRunIsPending ==
    InstallerCreated => pending["installer_run"] # NoPending

====
